---------------------------- MODULE Spec2Model ----------------------------
(***************************************************************************)
(* A model of cv_pro: the decoder and segment reconstruction of            *)
(* io/parse_bin, the Segment class, the half-wave matcher of ehalf and the *)
(* processing pipeline of voltammogram.Voltammogram.                       *)
(*                                                                         *)
(* Potentials are fixed-point integers in microvolts (1e-6 V): a value     *)
(* rounded to 3 decimals is a multiple of 1000, one rounded to 5 decimals  *)
(* a multiple of 10, one rounded to 2 decimals a multiple of 10000.  The   *)
(* binary representation error of the floats (about 1e-16 V per addition)  *)
(* is far below the resolutions and tolerances compared here and is not    *)
(* modelled.  Currents are integers in arbitrary units.                    *)
(***************************************************************************)
EXTENDS Integers, Sequences, FiniteSets, TLC

VARIABLES
    \* io/parse_bin.parse_bin_file
    file,               \* the decoded content of the .bin file (header fields, records)
    pc,                 \* position inside parse_bin_file
    parameters,         \* Parameters returned by _get_parameters
    current,            \* list returned by _unpack_data
    potential,          \* _build_segments: potential list
    segment_indices,    \* _build_segments: boundary list (mutated by _build_voltammogram)
    v,                  \* _build_segments: running potential
    sweep_direction,    \* _build_segments: running direction
    voltammogram,       \* the DataFrame returned by _build_voltammogram
    error               \* the exception that ended parse_bin_file, "" if none

parseVars == <<file, pc, parameters, current, potential, segment_indices, v,
               sweep_direction, voltammogram, error>>

VARIABLES
    \* segment.Segment
    data,               \* the Series handed to Segment.__init__
    segment,            \* the Segment object: index, raw, processed, peaks, ...
    applied             \* the corrections passed to apply_correction so far

segmentVars == <<data, segment, applied>>

VARIABLES
    \* voltammogram.Voltammogram and ehalf.find_ehalfs
    vpc,                    \* position inside Voltammogram.process_data
    detector,               \* what scipy's find_peaks returns for each segment
    self_voltammogram,      \* self.voltammogram, the DataFrame of the segments
    reference,              \* self.reference
    peak_sep_limit,         \* self.peak_sep_limit
    self_peaks,             \* self.peaks
    E_halfs,                \* self.E_halfs
    peak_separations,       \* self.peak_separations
    corrected_voltammogram, \* self.corrected_voltammogram
    is_processed,           \* self.is_processed
    printed,                \* the lines _print_E_halfs has printed, per segment pair
    view_only,              \* the view_only argument of Voltammogram.__init__
    is_none,                \* the attributes of the Voltammogram that are None
    ehalf_result            \* what a call of ehalf.find_ehalfs has returned

matchVars == <<vpc, detector, self_voltammogram, reference, peak_sep_limit,
               self_peaks, E_halfs, peak_separations, corrected_voltammogram,
               is_processed, printed, view_only, is_none, ehalf_result>>

VARIABLES
    \* Voltammogram: the trim of the segments to a range
    trim_pc,            \* "request" before the trim, "done" after it
    trim_request,       \* the number of segments and the (start, end) asked for
    trimmed_segments    \* the outcome: an error, or the range and the segments kept

trimVars == <<trim_pc, trim_request, trimmed_segments>>

VARIABLES
    \* export_csv.export_csv
    path_is_file,       \* os.path.isfile(voltammogram.path)
    exists,             \* the directory: for the name number n (0 is the base
                        \* name, n >= 1 the base name + " (n)") -1 when no such
                        \* entry exists, 0 for an entry that was there before,
                        \* k for the output of the k-th export
    exported            \* the name numbers the exports have created, in order

exportVars == <<path_is_file, exists, exported>>

VARIABLES
    \* scripts/multiview.multiview
    mv_pc,              \* position of the main thread inside multiview
    files,              \* the filtered set of files handed to multiview
    submitted,          \* the files executor.map has submitted so far
    work_queue,         \* the executor's queue of work items not yet taken
    threads,            \* the number of worker threads of the executor
    idle_semaphore,     \* the executor's count of workers that went idle
    busy,               \* the files whose run_cvp_script is running in a worker
    launches,           \* per file, the calls of subprocess.run(['cvp', ...])
    outcome             \* per file, how its run ended ("" while it has not)

multiVars == <<mv_pc, files, submitted, work_queue, threads, idle_semaphore, busy,
               launches, outcome>>

toolVars == <<trimVars, exportVars, multiVars>>

VARIABLES
    \* io/parse_bin on the bytes of a file
    decode_pc,          \* "start", then "done" or "error"
    file_bytes,         \* the bytes _read_bin returns
    decoded_parameters, \* the Parameters object of _get_parameters
    decoded_current,    \* the list of _unpack_data
    decode_error        \* the exception decoding ended with, "" if none

decodeVars == <<decode_pc, file_bytes, decoded_parameters, decoded_current,
                decode_error>>

VARIABLES
    \* segment.Segment: the list objects of several instances
    heap,               \* the list objects: heap[id] is the content of list id
    instances,          \* the Segment objects made so far: per attribute, a list id
    call                \* the last call made

shareVars == <<heap, instances, call>>

VARIABLES
    \* the checks of the trim option
    check_pc,           \* "request", then "done"
    check_request,      \* the number of segments and the two values of the option
    checked             \* the function called and the pair it returned

checkVars == <<check_pc, check_request, checked>>

auxVars == <<decodeVars, shareVars, checkVars>>

vars == <<parseVars, segmentVars, matchVars, toolVars, auxVars>>

-----------------------------------------------------------------------------
(* Bounds of the model *)

MaxSamples == 4

Currents == {0, 7}

\* header values as stored in the file, before rounding (microvolts)
RawInitE == {-1000, 0, 400, 1000}
RawHighE == {1000, 2000}
RawLowE == {-1000, 0}
RawInterval == {400, 1404, 2000}

\* the polarity flag as stored (a float), in tenths: -1.0, 0.0, 0.5, 1.0, 1.5, 2.0
PolarityFlags == {-10, 0, 5, 10, 15, 20}

\* the most complete records of a file that is cut short or has a bad flag
MaxShortRecords == 2

\* Segment: the length of a trace, and the number of apply_correction calls
MaxTrace == 2
MaxCalls == 2

\* potentials of a trace (3 decimals) and corrections (any float), in microvolts
TracePotentials == {-1000, 0, 2000}
Corrections == {0, 400, 1000, 1600}

\* Voltammogram: the number of segments of a frame
MaxSegments == 2

\* trim: the number of segments of the voltammogram, and the values of start
\* and end, which range over -2..MaxTrimValue
MaxTrimSegments == 4
MaxTrimValue == 6

\* export_csv: the name numbers 0..MaxExisting may be taken beforehand, and
\* there are at most MaxExports exports
MaxExisting == 3
MaxExports == 3

\* multiview: the number of .bin files in the directory, and the size of the
\* thread pool (ThreadPoolExecutor(max_workers=50) in the script, smaller here
\* so that files wait in the queue)
MaxFiles == 3
max_workers == 2

\* decoding of bytes: the number of records of a buffer, the number of
\* arrangements of the header values, and the bytes after the last record
MaxRecords == 3
MaxArrangements == 3
MaxTrailing == 1

\* Segment: the number of instances made, and of in-place appends
MaxInstances == 3
MaxAppends == 2

\* every segment holds a baseline sample at 0 V that is no peak, and any of
\* these potentials as a peak, with one of these currents
PeakPotentials == {100000, 103000, 300000}
PeakCurrents == {-3, 5}
References == {0, 64000}

\* peaks exactly 0.2 V apart whose separation is not the same double with and
\* without a reference
ShiftPotentials == {-500000, -300000}
Limits == {200000, 199999}

-----------------------------------------------------------------------------
(* Numeric helpers *)

Abs(x) == IF x < 0 THEN -x ELSE x

\* Python round(x, ndigits) on a value in microvolts: the nearest multiple of m
\* (exact ties, which the inputs of this model avoid, go to the even multiple)
RoundTo(x, m) ==
    LET q == x \div m
        r == x % m
    IN  IF 2 * r < m THEN q * m
        ELSE IF 2 * r > m THEN (q + 1) * m
        ELSE IF q % 2 = 0 THEN q * m ELSE (q + 1) * m

Round5(x) == RoundTo(x, 10)
Round3(x) == RoundTo(x, 1000)
Round2(x) == RoundTo(x, 10000)

\* the tolerance tol = 1e-4 V of _build_segments
Tol == 100

\* a cell of a DataFrame column: a value, or NaN where the column has no entry
Cell(x) == [nan |-> FALSE, val |-> x]
NaN == [nan |-> TRUE, val |-> 0]

-----------------------------------------------------------------------------
(* io/parse_bin *)

\* the byte offsets of the format: the last header field read ends at byte 893
\* and the records start at byte 1445
header_end == 893
data_start == 1445

\* int(x) on the stored polarity flag (tenths): truncation towards zero
IntCast(x) == IF x >= 0 THEN x \div 10 ELSE -((-x) \div 10)

\* lines 73 and 84-87: the direction the flag selects, 0 when the key
\* init_sweep_direction is never set
SweepDirectionOf(f) ==
    IF IntCast(f.polarity) = 1 THEN 1
    ELSE IF IntCast(f.polarity) = 0 THEN -1
    ELSE 0

\* the exception _get_parameters ends with, "" if none: struct.unpack on a
\* slice that is short of 4 bytes, then Parameters(**parameters) without the
\* required field init_sweep_direction
ParametersError(f) ==
    IF f.size < header_end THEN "struct.error"
    ELSE IF SweepDirectionOf(f) = 0 THEN "TypeError"
    ELSE ""

\* _get_parameters: the fields the reconstruction reads
_get_parameters(f) ==
    [init_E |-> Round3(f.init_E),
     high_E |-> Round3(f.high_E),
     low_E |-> Round3(f.low_E),
     sample_interval |-> Round5(f.sample_interval),
     init_sweep_direction |-> SweepDirectionOf(f)]

\* the bytes of the record region, file_bytes[data_start:]
RegionLength(f) == IF f.size > data_start THEN f.size - data_start ELSE 0

\* the exception _unpack_data ends with, "" if none: struct.iter_unpack wants a
\* buffer whose length is a multiple of 4
UnpackError(f) == IF RegionLength(f) % 4 # 0 THEN "struct.error" ELSE ""

\* _unpack_data: one current per 4-byte record, in file order
_unpack_data(f) == f.samples

\* the number of iterations of range(data_start, len(file_bytes), 4)
NumRecords(f) == (RegionLength(f) + 3) \div 4

\* line 111: the advance of the running potential
Advance(vv, params, dir) == vv + Round3(params.sample_interval * dir)

\* a turning-point test that forgets the low limit
TurningPoint_highOnly(vv, params) == Abs(vv - params.high_E) < Tol

\* line 114: the turning-point test
TurningPoint(vv, params) ==
    Abs(vv - params.high_E) < Tol \/ Abs(vv - params.low_E) < Tol

\* a reconstruction that never adds the final boundary
ForcedBoundary_never(indices, pot) == indices

\* a reconstruction that adds the final boundary without looking
ForcedBoundary_always(indices, pot) == Append(indices, Len(pot))

\* lines 124-125: the forced final boundary
ForcedBoundary(indices, pot) ==
    IF indices[Len(indices)] # Len(pot) THEN Append(indices, Len(pot)) ELSE indices

\* a slice that stops one sample before the next boundary
SegmentBlock_shortSlice(pot, cur, indices, i) ==
    LET start == indices[i + 1]
        end == indices[i + 2]
    IN  [index |-> SubSeq(pot, start + 1, end - 1),
         values |-> SubSeq(cur, start + 1, end - 1)]

\* lines 130-136: the DataFrame of segment i (0-based), as (index, values)
SegmentBlock(pot, cur, indices, i) ==
    LET start == indices[i + 1]
        end == indices[i + 2]
    IN  [index |-> SubSeq(pot, start + 1, end),
         values |-> SubSeq(cur, start + 1, end)]

SegmentBlocks(pot, cur, indices) ==
    [i \in 1..(Len(indices) - 1) |-> SegmentBlock(pot, cur, indices, i - 1)]

HasDuplicates(s) == \E i, j \in 1..Len(s) : i < j /\ s[i] = s[j]

\* the labels of all blocks in order of first appearance
RECURSIVE UnionIndex(_, _)
UnionIndex(blocks, k) ==
    IF k = 0 THEN <<>>
    ELSE LET before == UnionIndex(blocks, k - 1)
             seen == {before[i] : i \in 1..Len(before)}
         IN  before \o SelectSeq(blocks[k].index, LAMBDA x : x \notin seen)

\* the value of a block at a label, NaN when the block does not hold the label
ValueAt(block, label) ==
    IF \E i \in 1..Len(block.index) : block.index[i] = label
    THEN Cell(block.values[CHOOSE i \in 1..Len(block.index) : block.index[i] = label])
    ELSE NaN

\* pd.concat(segments, axis=1): "ValueError" without blocks, the blocks side by
\* side when their indexes are all equal, "InvalidIndexError" when differing
\* indexes hold duplicates, and else the outer join on the union of the indexes
ConcatError(blocks) ==
    IF Len(blocks) = 0 THEN "ValueError"
    ELSE IF \A k \in 1..Len(blocks) : blocks[k].index = blocks[1].index THEN ""
    ELSE IF \E k \in 1..Len(blocks) : HasDuplicates(blocks[k].index)
         THEN "InvalidIndexError"
    ELSE ""

Concat(blocks) ==
    IF \A k \in 1..Len(blocks) : blocks[k].index = blocks[1].index
    THEN [index |-> blocks[1].index,
          columns |-> [k \in 1..Len(blocks) |->
                          [r \in 1..Len(blocks[k].values) |-> Cell(blocks[k].values[r])]]]
    ELSE LET idx == UnionIndex(blocks, Len(blocks))
         IN  [index |-> idx,
              columns |-> [k \in 1..Len(blocks) |->
                              [r \in 1..Len(idx) |-> ValueAt(blocks[k], idx[r])]]]

\* the position of row p after a stable ascending sort of the labels
Rank(idx, p) ==
    Cardinality({q \in 1..Len(idx) : idx[q] < idx[p] \/ (idx[q] = idx[p] /\ q < p)}) + 1

\* the frame left as pd.concat returns it
sort_index_skipped(frame) == frame

\* DataFrame.sort_index(inplace=True)
sort_index(frame) ==
    LET n == Len(frame.index)
        src == [r \in 1..n |-> CHOOSE p \in 1..n : Rank(frame.index, p) = r]
    IN  [index |-> [r \in 1..n |-> frame.index[src[r]]],
         columns |-> [k \in 1..Len(frame.columns) |->
                         [r \in 1..n |-> frame.columns[k][src[r]]]]]

NoFrame == [index |-> <<>>, columns |-> <<>>]

\* _build_voltammogram, lines 127-142
_build_voltammogram(pot, cur, indices) ==
    sort_index(Concat(SegmentBlocks(pot, cur, indices)))

-----------------------------------------------------------------------------
(* parse_bin_file as a state machine *)

\* files of a whole number of records with a polarity flag of 0.0 or 1.0
Files ==
    {[init_E |-> ie, high_E |-> he, low_E |-> le, sample_interval |-> si,
      polarity |-> p, samples |-> s, size |-> data_start + 4 * Len(s)] :
        ie \in RawInitE, he \in RawHighE, le \in RawLowE, si \in RawInterval,
        p \in {0, 10},
        s \in UNION {[1..n -> Currents] : n \in 0..MaxSamples}}

\* the lengths of files that end inside the header, between the header and the
\* records, or anywhere in the first records
ByteSizes ==
    {0, header_end - 1, header_end, data_start - 1}
        \cup (data_start..(data_start + 4 * MaxShortRecords + 3))

\* files of any of these lengths and any polarity flag; samples holds the
\* complete records of the file
OddFiles ==
    {[init_E |-> 0, high_E |-> 2000, low_E |-> -1000, sample_interval |-> 1404,
      polarity |-> p, samples |-> s, size |-> sz] :
        p \in PolarityFlags, sz \in ByteSizes,
        s \in UNION {[1..n -> Currents] : n \in 0..MaxShortRecords}}

\* the ramp of the specification: 0.0 V, -0.5 V .. 0.5 V, 0.1 V per sample,
\* Positive, 40 samples
RampFile ==
    [init_E |-> 0, high_E |-> 500000, low_E |-> -500000,
     sample_interval |-> 100000, polarity |-> 10,
     samples |-> [i \in 1..40 |-> i], size |-> data_start + 160]

NoParameters ==
    [init_E |-> 0, high_E |-> 0, low_E |-> 0, sample_interval |-> 0,
     init_sweep_direction |-> 0]

ParseInit ==
    /\ file \in Files \cup {RampFile}
                 \cup {f \in OddFiles : Len(f.samples) = RegionLength(f) \div 4}
    /\ pc = "start"
    /\ parameters = NoParameters
    /\ current = <<>>
    /\ potential = <<>>
    /\ segment_indices = <<>>
    /\ v = 0
    /\ sweep_direction = 0
    /\ voltammogram = NoFrame
    /\ error = ""

\* lines 47-49 and 102-107: the header and the records are decoded and the walk
\* over the records is set up
ParseBinFile ==
    /\ pc = "start"
    /\ IF ParametersError(file) # ""
       THEN /\ error' = ParametersError(file)
            /\ pc' = "error"
            /\ UNCHANGED <<parameters, current, sweep_direction, v,
                           segment_indices, potential>>
       ELSE IF UnpackError(file) # ""
       THEN /\ parameters' = _get_parameters(file)
            /\ error' = UnpackError(file)
            /\ pc' = "error"
            /\ UNCHANGED <<current, sweep_direction, v, segment_indices, potential>>
       ELSE /\ parameters' = _get_parameters(file)
            /\ current' = _unpack_data(file)
            /\ sweep_direction' = parameters'.init_sweep_direction
            /\ v' = parameters'.init_E
            /\ segment_indices' = <<0>>
            /\ potential' = <<>>
            /\ pc' = "build_segments"
            /\ UNCHANGED error
    /\ UNCHANGED <<file, voltammogram>>
    /\ UNCHANGED <<segmentVars, matchVars, toolVars, auxVars>>

\* an iteration that advances the running potential before recording it
BuildSegmentsStep_recordAfter ==
    /\ pc = "build_segments"
    /\ Len(potential) < NumRecords(file)
    /\ v' = Advance(v, parameters, sweep_direction)
    /\ potential' = Append(potential, Round3(v'))
    /\ IF TurningPoint(v', parameters)
       THEN /\ sweep_direction' = -sweep_direction
            /\ segment_indices' = Append(segment_indices, Len(potential'))
       ELSE UNCHANGED <<sweep_direction, segment_indices>>
    /\ UNCHANGED <<file, pc, parameters, current, voltammogram, error>>
    /\ UNCHANGED <<segmentVars, matchVars, toolVars, auxVars>>

\* lines 109-116: one iteration of the loop of _build_segments
BuildSegmentsStep ==
    /\ pc = "build_segments"
    /\ Len(potential) < NumRecords(file)
    /\ potential' = Append(potential, Round3(v))
    /\ v' = Advance(v, parameters, sweep_direction)
    /\ IF TurningPoint(v', parameters)
       THEN /\ sweep_direction' = -sweep_direction
            /\ segment_indices' = Append(segment_indices, Len(potential'))
       ELSE UNCHANGED <<sweep_direction, segment_indices>>
    /\ UNCHANGED <<file, pc, parameters, current, voltammogram, error>>
    /\ UNCHANGED <<segmentVars, matchVars, toolVars, auxVars>>

\* lines 118 and 121-142: the loop is over and _build_voltammogram runs
BuildVoltammogram ==
    /\ pc = "build_segments"
    /\ Len(potential) = NumRecords(file)
    /\ segment_indices' = ForcedBoundary(segment_indices, potential)
    /\ LET blocks == SegmentBlocks(potential, current, segment_indices')
       IN  IF ConcatError(blocks) # ""
           THEN /\ error' = ConcatError(blocks)
                /\ pc' = "error"
                /\ UNCHANGED voltammogram
           ELSE /\ voltammogram' = _build_voltammogram(potential, current, segment_indices')
                /\ pc' = "done"
                /\ UNCHANGED error
    /\ UNCHANGED <<file, parameters, current, potential, v, sweep_direction>>
    /\ UNCHANGED <<segmentVars, matchVars, toolVars, auxVars>>

-----------------------------------------------------------------------------
(* file_parse.parse_bin_file, the parser of process.Voltammogram, on the same
   state: voltammogram is here the list of the DataFrames of the segments *)

\* the exception raised before the records are unpacked, "" if none:
\* struct.unpack on a short slice (lines 52-63), or the missing key
\* init_sweep_direction in _print_experimental_parameters (line 79)
ExperimentalParametersError(f) ==
    IF f.size < header_end THEN "struct.error"
    ELSE IF SweepDirectionOf(f) = 0 THEN "KeyError"
    ELSE ""

\* the Python slice s[lo:hi] of a list, lo >= 0; a negative hi counts from the end
ListSlice(s, lo, hi) ==
    LET h == IF hi < 0 THEN hi + Len(s) ELSE hi
    IN  SubSeq(s, lo + 1, IF h < Len(s) THEN h ELSE Len(s))

\* file_parse._build_voltammogram, lines 113-122
LegacyVoltammogram(pot, cur, indices) ==
    [i \in 1..(Len(indices) - 1) |->
        [pot |-> ListSlice(pot, indices[i], indices[i + 1]),
         cur |-> ListSlice(cur, indices[i], indices[i + 1])]]

\* lines 31-35 and 92-96: the header and the records are decoded and the loop
\* of _build_segments is set up
FileParseStart ==
    /\ pc = "start"
    /\ IF ExperimentalParametersError(file) # ""
       THEN /\ error' = ExperimentalParametersError(file)
            /\ pc' = "error"
            /\ UNCHANGED <<parameters, current, sweep_direction, v,
                           segment_indices, potential>>
       ELSE IF UnpackError(file) # ""
       THEN /\ parameters' = _get_parameters(file)
            /\ error' = UnpackError(file)
            /\ pc' = "error"
            /\ UNCHANGED <<current, sweep_direction, v, segment_indices, potential>>
       ELSE /\ parameters' = _get_parameters(file)
            /\ current' = _unpack_data(file)
            /\ sweep_direction' = parameters'.init_sweep_direction
            /\ v' = parameters'.init_E
            /\ segment_indices' = <<0>>
            /\ potential' = <<>>
            /\ pc' = "build_segments"
            /\ UNCHANGED error
    /\ UNCHANGED <<file, voltammogram>>
    /\ UNCHANGED <<segmentVars, matchVars, toolVars, auxVars>>

\* lines 98-105: one iteration of the loop: the potential is recorded, a
\* potential on a limit flips the direction and appends the index of this
\* sample, and then the running potential is advanced
FileParseSegmentsStep ==
    /\ pc = "build_segments"
    /\ Len(potential) < NumRecords(file)
    /\ potential' = Append(potential, Round3(v))
    /\ IF Round3(v) = parameters.high_E \/ Round3(v) = parameters.low_E
       THEN /\ sweep_direction' = -sweep_direction
            /\ segment_indices' = Append(segment_indices, Len(potential') - 1)
       ELSE UNCHANGED <<sweep_direction, segment_indices>>
    /\ v' = Advance(v, parameters, sweep_direction')
    /\ UNCHANGED <<file, pc, parameters, current, voltammogram, error>>
    /\ UNCHANGED <<segmentVars, matchVars, toolVars, auxVars>>

\* lines 107-110 and 36: the end index len(potential) - 1 is appended and
\* _build_voltammogram slices the lists
FileParseBuildVoltammogram ==
    /\ pc = "build_segments"
    /\ Len(potential) = NumRecords(file)
    /\ segment_indices' = Append(segment_indices, Len(potential) - 1)
    /\ voltammogram' = LegacyVoltammogram(potential, current, segment_indices')
    /\ pc' = "done"
    /\ UNCHANGED <<file, parameters, current, potential, v, sweep_direction, error>>
    /\ UNCHANGED <<segmentVars, matchVars, toolVars, auxVars>>

-----------------------------------------------------------------------------
(* segment.Segment *)

\* a pandas Series: the index (potentials), its name, and the values (currents)
Series(idx, vals, name) == [index |-> idx, values |-> vals, name |-> name]

NoSeries == Series(<<>>, <<>>, "")

\* Segment.__init__, lines 48-53: raw and processed are two copies of data
Segment__init__(index, d, peaks, ehalfs, separations) ==
    [index |-> index,
     raw |-> d,
     processed |-> d,
     peaks |-> peaks,
     ehalfs |-> ehalfs,
     peak_separations |-> separations]

\* a correction on a Segment whose raw and processed are one Series, not copies
apply_correction_aliased(sg, correction, reference_name) ==
    LET shifted == Series([i \in 1..Len(sg.processed.index) |->
                              Round3(sg.processed.index[i] - correction)],
                          sg.processed.values,
                          reference_name)
    IN  [sg EXCEPT !.processed = shifted, !.raw = shifted]

\* a correction that starts from the raw potentials each time
apply_correction_from_raw(sg, correction, reference_name) ==
    [sg EXCEPT !.processed =
        Series([i \in 1..Len(sg.raw.index) |-> Round3(sg.raw.index[i] - correction)],
               sg.processed.values,
               reference_name)]

\* Segment.apply_correction, lines 68-69: processed gets a new index, which is
\* then renamed
apply_correction(sg, correction, reference_name) ==
    [sg EXCEPT !.processed =
        Series([i \in 1..Len(sg.processed.index) |->
                    Round3(sg.processed.index[i] - correction)],
               sg.processed.values,
               reference_name)]

\* ascending index lists over the positions 0..n-1, as find_peaks returns them
RECURSIVE AscendingLists(_)
AscendingLists(n) ==
    IF n = 0 THEN {<<>>}
    ELSE AscendingLists(n - 1) \cup {Append(l, n - 1) : l \in AscendingLists(n - 1)}

Traces ==
    UNION {{Series(idx, vals, "Potential (V)") :
                idx \in [1..n -> TracePotentials], vals \in [1..n -> Currents]} :
           n \in 1..MaxTrace}

NoSegment == Segment__init__(0, NoSeries, <<>>, <<>>, <<>>)

SegmentIdle ==
    /\ data = NoSeries
    /\ segment = NoSegment
    /\ applied = <<>>

ParseIdle ==
    /\ file = [init_E |-> 0, high_E |-> 0, low_E |-> 0, sample_interval |-> 0,
               polarity |-> 0, samples |-> <<>>, size |-> 0]
    /\ pc = "idle"
    /\ parameters = NoParameters
    /\ current = <<>>
    /\ potential = <<>>
    /\ segment_indices = <<>>
    /\ v = 0
    /\ sweep_direction = 0
    /\ voltammogram = NoFrame
    /\ error = ""

\* Segment(index, data, peaks): the object right after construction
SegmentInit ==
    /\ data \in Traces
    /\ \E pk \in AscendingLists(Len(data.index)) :
           segment = Segment__init__(0, data, pk, <<>>, <<>>)
    /\ applied = <<>>

\* a call segment.apply_correction(c)
ApplyCorrection ==
    /\ Len(applied) < MaxCalls
    /\ \E c \in Corrections :
           /\ segment' = apply_correction(segment, c, "Potential (V) vs. Fc+/0")
           /\ applied' = Append(applied, c)
    /\ UNCHANGED data
    /\ UNCHANGED <<parseVars, matchVars, toolVars, auxVars>>

\* a call segment.find_peaks(), lines 73-75: scipy's detector is an external
\* primitive, any ascending list of positions may come back
FindPeaks ==
    /\ \E pk \in AscendingLists(Len(segment.processed.index)) :
           /\ pk # segment.peaks
           /\ segment' = [segment EXCEPT !.peaks = pk]
    /\ UNCHANGED <<data, applied>>
    /\ UNCHANGED <<parseVars, matchVars, toolVars, auxVars>>

-----------------------------------------------------------------------------
(* ehalf *)

\* a column of a frame as a Series
Column(frame, k) == Series(frame.index, frame.columns[k], "")

\* _extract_peak_coordinates, lines 99-101: (potential, current) of each peak,
\* in the order of peak_indices (positions count from 0)
_extract_peak_coordinates(sg, peak_indices) ==
    [j \in 1..Len(peak_indices) |->
        <<sg.index[peak_indices[j] + 1], sg.values[peak_indices[j] + 1].val>>]

\* _is_valid_peak_pair, line 162
_is_valid_peak_pair(pot_a, curr_a, pot_b, curr_b) ==
    (curr_a > curr_b /\ pot_a < pot_b) \/ (curr_a < curr_b /\ pot_a > pot_b)

\* a midpoint rounded to 3 decimals
_calculate_e_half_3decimals(potential_a, potential_b) ==
    RoundTo(potential_a + potential_b, 2000) \div 2

\* _calculate_e_half, line 179: round(0.5 * (a + b), 2)
_calculate_e_half(potential_a, potential_b) ==
    RoundTo(potential_a + potential_b, 20000) \div 2

\* a separation test that excludes the limit itself
WithinLimit_strict(separation, limit) == separation < limit

\* line 131: the separation test
WithinLimit(separation, limit) == separation <= limit

\* _find_matching_peaks, lines 124-137: the nested loops, from peak i of the
\* current segment and peak j of the next one on, appending to acc
RECURSIVE MatchingLoop(_, _, _, _, _, _)
MatchingLoop(current_peaks, next_peaks, limit, i, j, acc) ==
    IF i > Len(current_peaks) THEN acc
    ELSE IF j > Len(next_peaks)
         THEN MatchingLoop(current_peaks, next_peaks, limit, i + 1, 1, acc)
    ELSE LET potential_a == current_peaks[i][1]
             current_a == current_peaks[i][2]
             potential_b == next_peaks[j][1]
             current_b == next_peaks[j][2]
             separation == Abs(potential_a - potential_b)
             found ==
                 IF /\ WithinLimit(separation, limit)
                    /\ _is_valid_peak_pair(potential_a, current_a, potential_b, current_b)
                 THEN [e_halfs |-> Append(acc.e_halfs,
                                          _calculate_e_half(potential_a, potential_b)),
                       separations |-> Append(acc.separations, separation)]
                 ELSE acc
         IN  MatchingLoop(current_peaks, next_peaks, limit, i, j + 1, found)

NoMatches == [e_halfs |-> <<>>, separations |-> <<>>]

\* a matcher that keeps, for every peak of the current segment, its first match
RECURSIVE FirstMatches(_, _, _, _)
FirstMatches(current_peaks, next_peaks, limit, i) ==
    IF i = 0 THEN NoMatches
    ELSE LET before == FirstMatches(current_peaks, next_peaks, limit, i - 1)
             own == MatchingLoop(<<current_peaks[i]>>, next_peaks, limit, 1, 1, NoMatches)
         IN  IF Len(own.e_halfs) = 0 THEN before
             ELSE [e_halfs |-> Append(before.e_halfs, own.e_halfs[1]),
                   separations |-> Append(before.separations, own.separations[1])]

_find_matching_peaks_firstMatch(current_peaks, next_peaks, limit) ==
    FirstMatches(current_peaks, next_peaks, limit, Len(current_peaks))

_find_matching_peaks(current_peaks, next_peaks, limit) ==
    MatchingLoop(current_peaks, next_peaks, limit, 1, 1, NoMatches)

\* _process_segment_pair, lines 63-75 (segment_idx counts from 0)
_process_segment_pair(cv_traces, segment_idx, peaks, limit) ==
    LET current_peaks == peaks[segment_idx + 1]
        next_peaks == peaks[segment_idx + 2]
    IN  IF Len(current_peaks) = 0 \/ Len(next_peaks) = 0 THEN NoMatches
        ELSE _find_matching_peaks(
                 _extract_peak_coordinates(Column(cv_traces, segment_idx + 1), current_peaks),
                 _extract_peak_coordinates(Column(cv_traces, segment_idx + 2), next_peaks),
                 limit)

\* a find_ehalfs that returns one pair of lists per segment, the last one empty
find_ehalfs_perSegment(cv_traces, peaks, limit) ==
    LET n_segments == Len(cv_traces.columns)
        pairs == [i \in 1..n_segments |->
                     IF i < n_segments
                     THEN _process_segment_pair(cv_traces, i - 1, peaks, limit)
                     ELSE NoMatches]
    IN  [e_halfs |-> [i \in 1..n_segments |-> pairs[i].e_halfs],
         peak_separations |-> [i \in 1..n_segments |-> pairs[i].separations]]

\* find_ehalfs, lines 31-42: one pair of lists per pair of consecutive segments
find_ehalfs(cv_traces, peaks, limit) ==
    LET n_segments == Len(cv_traces.columns) - 1
        pairs == [i \in 1..n_segments |->
                     _process_segment_pair(cv_traces, i - 1, peaks, limit)]
    IN  [e_halfs |-> [i \in 1..n_segments |-> pairs[i].e_halfs],
         peak_separations |-> [i \in 1..n_segments |-> pairs[i].separations]]

-----------------------------------------------------------------------------
(* voltammogram.Voltammogram *)

\* find_Ehalfs, lines 140-142: the order test
PeaksInOrder(peak_a_x, peak_a_y, peak_b_x, peak_b_y) ==
    \/ (peak_a_y > peak_b_y /\ peak_a_x < peak_b_x)
    \/ (peak_a_y < peak_b_y /\ peak_a_x > peak_b_x)

\* find_Ehalfs, line 144: round(0.5 * (peak_a_x - peak_b_x) + peak_b_x, 2)
MidPoint(peak_a_x, peak_b_x) ==
    RoundTo((peak_a_x - peak_b_x) + 2 * peak_b_x, 20000) \div 2

\* the sign of the rounding error of the double abs((a - ref) - (b - ref)),
\* lines 134, 137 and 139, against the double of the decimal |a - b|, for the
\* peak potentials and references of the model (IEEE-754 binary64, round to
\* nearest): 0 where the two doubles are equal
SeparationRounding(a, b, ref) ==
    IF {a, b} = {-500000, -300000} /\ ref = 64000 THEN 1
    ELSE IF {a, b} \in {{100000, 103000}, {100000, 300000}} /\ ref \in {0, 64000} THEN -1
    ELSE 0

\* line 139: abs(peak_a_x - peak_b_x) <= self.peak_sep_limit on doubles; a
\* separation that is the limit in decimals passes unless it is rounded up
SeparationWithinLimit(a, b, ref, limit) ==
    \/ Abs(a - b) < limit
    \/ Abs(a - b) = limit /\ SeparationRounding(a, b, ref) <= 0

\* find_Ehalfs, lines 132-146: the nested loops over the peaks of segment i and
\* of segment i + 1 (i counts from 0), from peak a and peak b on
RECURSIVE EhalfsLoop(_, _, _, _, _, _, _, _)
EhalfsLoop(frame, peaks, ref, limit, i, a, b, acc) ==
    IF a > Len(peaks[i + 1]) THEN acc
    ELSE IF b > Len(peaks[i + 2])
         THEN EhalfsLoop(frame, peaks, ref, limit, i, a + 1, 1, acc)
    ELSE LET peak_a == peaks[i + 1][a]
             peak_b == peaks[i + 2][b]
             peak_a_x == frame.index[peak_a + 1] - ref
             peak_a_y == frame.columns[i + 1][peak_a + 1].val
             peak_b_x == frame.index[peak_b + 1] - ref
             peak_b_y == frame.columns[i + 2][peak_b + 1].val
             found ==
                 IF /\ SeparationWithinLimit(frame.index[peak_a + 1],
                                             frame.index[peak_b + 1], ref, limit)
                    /\ PeaksInOrder(peak_a_x, peak_a_y, peak_b_x, peak_b_y)
                 THEN [e_halfs |-> Append(acc.e_halfs, MidPoint(peak_a_x, peak_b_x)),
                       separations |-> Append(acc.separations, Abs(peak_a_x - peak_b_x))]
                 ELSE acc
         IN  EhalfsLoop(frame, peaks, ref, limit, i, a, b + 1, found)

\* Voltammogram.find_Ehalfs, lines 123-151
find_Ehalfs(frame, peaks, ref, limit) ==
    LET n == Len(frame.columns) - 1
        pairs == [i \in 1..n |->
                     EhalfsLoop(frame, peaks, ref, limit, i - 1, 1, 1, NoMatches)]
    IN  [E_halfs |-> [i \in 1..n |-> pairs[i].e_halfs],
         peak_separations |-> [i \in 1..n |-> pairs[i].separations]]

\* list.sort(reverse=True), line 157: how many entries come before entry p
RankDescending(l, p) ==
    Cardinality({q \in 1..Len(l) : l[q] > l[p] \/ (l[q] = l[p] /\ q < p)}) + 1

SortReverse(l) ==
    [r \in 1..Len(l) |-> l[CHOOSE p \in 1..Len(l) : RankDescending(l, p) = r]]

\* _print_E_halfs, lines 154-159: each list of E_halfs is sorted in place; the
\* lines printed pair the sorted values with the separations as they stand
PrintedLines(e_half, peak_sep) ==
    LET n == IF Len(e_half) < Len(peak_sep) THEN Len(e_half) ELSE Len(peak_sep)
    IN  [k \in 1..n |-> <<SortReverse(e_half)[k], Round3(peak_sep[k])>>]

\* _relative_to_ferrocenium, lines 171-173: the index of the frame is shifted
_relative_to_ferrocenium(frame, ref) ==
    [frame EXCEPT !.index = [r \in 1..Len(frame.index) |-> frame.index[r] - ref]]

-----------------------------------------------------------------------------
(* Voltammogram.process_data as a state machine *)

\* the samples of a segment: the baseline sample, and the chosen peaks in
\* ascending order of potential
RECURSIVE SortedSeq(_)
SortedSeq(S) ==
    IF S = {} THEN <<>>
    ELSE LET m == CHOOSE x \in S : \A y \in S : x <= y
         IN  <<m>> \o SortedSeq(S \ {m})

PeakChoices == [PeakPotentials -> PeakCurrents \cup {0}]
ShiftChoices == [ShiftPotentials -> PeakCurrents \cup {0}]

BlockOf(choice) ==
    LET pots == SortedSeq({p \in DOMAIN choice : choice[p] # 0})
    IN  [index |-> <<0>> \o pots,
         values |-> <<0>> \o [j \in 1..Len(pots) |-> choice[pots[j]]]]

\* the frames _build_voltammogram makes of such segments
FrameOf(choices) ==
    sort_index(Concat([k \in 1..Len(choices) |-> BlockOf(choices[k])]))

\* the rows that hold a peak of column k, counted from 0, ascending
PeakRows(frame, k) ==
    LET rows == SelectSeq([r \in 1..Len(frame.index) |-> r],
                          LAMBDA r : /\ ~frame.columns[k][r].nan
                                     /\ frame.columns[k][r].val # 0)
    IN  [j \in 1..Len(rows) |-> rows[j] - 1]

NoResult == [set |-> FALSE, e_halfs |-> <<>>, peak_separations |-> <<>>]

\* the attributes __init__ sets to None, lines 77-80
Attributes == {"peaks", "E_halfs", "peak_separations", "corrected_voltammogram"}

MatchIdle ==
    /\ vpc = "idle"
    /\ detector = <<>>
    /\ self_voltammogram = NoFrame
    /\ reference = 0
    /\ peak_sep_limit = 0
    /\ self_peaks = <<>>
    /\ E_halfs = <<>>
    /\ peak_separations = <<>>
    /\ corrected_voltammogram = NoFrame
    /\ is_processed = FALSE
    /\ printed = <<>>
    /\ view_only = FALSE
    /\ is_none = Attributes
    /\ ehalf_result = NoResult

\* either Voltammogram.__init__ after line 75, with the decoded frame of one
\* or more segments, or the arguments of a direct call of ehalf.find_ehalfs:
\* a frame of any number of segments (self_voltammogram), the find_peaks
\* results of its columns (self_peaks) and a limit
MatchInit ==
    /\ \/ /\ vpc = "__init__"
          /\ view_only \in BOOLEAN
          /\ \E n \in 1..MaxSegments : \E choices \in [1..n -> PeakChoices] :
                 /\ self_voltammogram = FrameOf(choices)
                 /\ detector = [k \in 1..n |-> PeakRows(self_voltammogram, k)]
          /\ self_peaks = <<>>
          /\ reference \in References
       \/ /\ vpc = "standalone"
          /\ view_only = FALSE
          /\ \/ self_voltammogram = NoFrame /\ detector = <<>>
             \/ \E n \in 1..MaxSegments : \E choices \in [1..n -> PeakChoices] :
                    /\ self_voltammogram = FrameOf(choices)
                    /\ detector = [k \in 1..n |-> PeakRows(self_voltammogram, k)]
          /\ self_peaks = detector
          /\ reference = 0
    /\ peak_sep_limit \in Limits
    /\ E_halfs = <<>>
    /\ peak_separations = <<>>
    /\ corrected_voltammogram = NoFrame
    /\ is_processed = FALSE
    /\ printed = <<>>
    /\ is_none = Attributes
    /\ ehalf_result = NoResult

\* Voltammogram.__init__ after line 75 with a frame of two segments whose
\* peaks lie at the ShiftPotentials, and any reference
MatchInitReference ==
    /\ vpc = "__init__"
    /\ view_only = FALSE
    /\ \E choices \in [1..2 -> ShiftChoices] :
           /\ self_voltammogram = FrameOf(choices)
           /\ detector = [k \in 1..2 |-> PeakRows(self_voltammogram, k)]
    /\ self_peaks = <<>>
    /\ reference \in References
    /\ peak_sep_limit \in Limits
    /\ E_halfs = <<>>
    /\ peak_separations = <<>>
    /\ corrected_voltammogram = NoFrame
    /\ is_processed = FALSE
    /\ printed = <<>>
    /\ is_none = Attributes
    /\ ehalf_result = NoResult

\* a constructor that processes the data whatever view_only says
Construct_alwaysProcess ==
    /\ vpc = "__init__"
    /\ is_none' = Attributes
    /\ is_processed' = FALSE
    /\ vpc' = "process_data"
    /\ UNCHANGED <<detector, self_voltammogram, reference, peak_sep_limit, self_peaks,
                   E_halfs, peak_separations, corrected_voltammogram, printed,
                   view_only, ehalf_result>>
    /\ UNCHANGED <<parseVars, segmentVars, toolVars, auxVars>>

\* Voltammogram.__init__, lines 77-84: the results are None, is_processed is
\* False, and process_data runs unless view_only
Construct ==
    /\ vpc = "__init__"
    /\ is_none' = Attributes
    /\ is_processed' = FALSE
    /\ vpc' = IF view_only THEN "viewing" ELSE "process_data"
    /\ UNCHANGED <<detector, self_voltammogram, reference, peak_sep_limit, self_peaks,
                   E_halfs, peak_separations, corrected_voltammogram, printed,
                   view_only, ehalf_result>>
    /\ UNCHANGED <<parseVars, segmentVars, toolVars, auxVars>>

\* line 90: self.peaks = self.find_peaks()
ProcessFindPeaks ==
    /\ vpc = "process_data"
    /\ self_peaks' = detector
    /\ is_none' = is_none \ {"peaks"}
    /\ vpc' = "find_Ehalfs"
    /\ UNCHANGED <<detector, self_voltammogram, reference, peak_sep_limit, E_halfs,
                   peak_separations, corrected_voltammogram, is_processed, printed,
                   view_only, ehalf_result>>
    /\ UNCHANGED <<parseVars, segmentVars, toolVars, auxVars>>

\* line 91: self.E_halfs, self.peak_separations = self.find_Ehalfs()
ProcessFindEhalfs ==
    /\ vpc = "find_Ehalfs"
    /\ LET r == find_Ehalfs(self_voltammogram, self_peaks, reference, peak_sep_limit)
       IN  /\ E_halfs' = r.E_halfs
           /\ peak_separations' = r.peak_separations
    /\ is_none' = is_none \ {"E_halfs", "peak_separations"}
    /\ vpc' = "print_E_halfs"
    /\ UNCHANGED <<detector, self_voltammogram, reference, peak_sep_limit, self_peaks,
                   corrected_voltammogram, is_processed, printed, view_only,
                   ehalf_result>>
    /\ UNCHANGED <<parseVars, segmentVars, toolVars, auxVars>>

\* line 92: self._print_E_halfs(self.E_halfs, self.peak_separations)
ProcessPrintEhalfs ==
    /\ vpc = "print_E_halfs"
    /\ printed' = [i \in 1..Len(E_halfs) |-> PrintedLines(E_halfs[i], peak_separations[i])]
    /\ E_halfs' = [i \in 1..Len(E_halfs) |-> SortReverse(E_halfs[i])]
    /\ vpc' = "correct"
    /\ UNCHANGED <<detector, self_voltammogram, reference, peak_sep_limit, self_peaks,
                   peak_separations, corrected_voltammogram, is_processed, view_only,
                   is_none, ehalf_result>>
    /\ UNCHANGED <<parseVars, segmentVars, toolVars, auxVars>>

\* a process_data that can set is_processed as its first statement
ProcessFinish_early ==
    /\ vpc \in {"process_data", "correct"}
    /\ IF reference # 0
       THEN /\ self_voltammogram' = _relative_to_ferrocenium(self_voltammogram, reference)
            /\ corrected_voltammogram' = self_voltammogram'
            /\ is_none' = is_none \ {"corrected_voltammogram"}
       ELSE UNCHANGED <<self_voltammogram, corrected_voltammogram, is_none>>
    /\ is_processed' = TRUE
    /\ vpc' = "done"
    /\ UNCHANGED <<detector, reference, peak_sep_limit, self_peaks, E_halfs,
                   peak_separations, printed, view_only, ehalf_result>>
    /\ UNCHANGED <<parseVars, segmentVars, toolVars, auxVars>>

\* lines 93-95: corrected_voltammogram is self.voltammogram itself, whose index
\* is shifted; then is_processed is set
ProcessFinish ==
    /\ vpc = "correct"
    /\ IF reference # 0
       THEN /\ self_voltammogram' = _relative_to_ferrocenium(self_voltammogram, reference)
            /\ corrected_voltammogram' = self_voltammogram'
            /\ is_none' = is_none \ {"corrected_voltammogram"}
       ELSE UNCHANGED <<self_voltammogram, corrected_voltammogram, is_none>>
    /\ is_processed' = TRUE
    /\ vpc' = "done"
    /\ UNCHANGED <<detector, reference, peak_sep_limit, self_peaks, E_halfs,
                   peak_separations, printed, view_only, ehalf_result>>
    /\ UNCHANGED <<parseVars, segmentVars, toolVars, auxVars>>

\* a call ehalf.find_ehalfs(cv_traces, peaks, peak_sep_limit): on the data of
\* the processed Voltammogram, or on the arguments of a direct call
CallFindEhalfs ==
    /\ vpc \in {"done", "standalone"}
    /\ ~ehalf_result.set
    /\ LET r == find_ehalfs(self_voltammogram, self_peaks, peak_sep_limit)
       IN  ehalf_result' = [set |-> TRUE, e_halfs |-> r.e_halfs,
                            peak_separations |-> r.peak_separations]
    /\ UNCHANGED <<vpc, detector, self_voltammogram, reference, peak_sep_limit,
                   self_peaks, E_halfs, peak_separations, corrected_voltammogram,
                   is_processed, printed, view_only, is_none>>
    /\ UNCHANGED <<parseVars, segmentVars, toolVars, auxVars>>

-----------------------------------------------------------------------------
(* Voltammogram: trim *)

NoTrim == [error |-> "", start |-> 0, end |-> 0, segments |-> <<>>]

\* a trim that does not know the sentinel end = -1
trim_noSentinel(total_segments, start, end) ==
    LET s == IF start < 1 THEN 1 ELSE start
        e == IF end >= total_segments THEN total_segments ELSE end
    IN  IF s > e
        THEN [error |-> "InvalidRangeError", start |-> s, end |-> e, segments |-> <<>>]
        ELSE [error |-> "", start |-> s, end |-> e,
              segments |-> [k \in 1..(e - s + 1) |-> s + k - 1]]

\* trim(start, end) on total_segments segments: start is clamped to 1, end to
\* the number of segments (also when it is the sentinel -1); start > end after
\* that is an InvalidRangeError, and else the segments start..end are kept, in
\* order, by their 1-based ordinals
trim(total_segments, start, end) ==
    LET s == IF start < 1 THEN 1 ELSE start
        e == IF end >= total_segments \/ end = -1 THEN total_segments ELSE end
    IN  IF s > e
        THEN [error |-> "InvalidRangeError", start |-> s, end |-> e, segments |-> <<>>]
        ELSE [error |-> "", start |-> s, end |-> e,
              segments |-> [k \in 1..(e - s + 1) |-> s + k - 1]]

TrimIdle ==
    /\ trim_pc = "idle"
    /\ trim_request = [total_segments |-> 0, start |-> 0, end |-> 0]
    /\ trimmed_segments = NoTrim

TrimInit ==
    /\ trim_pc = "request"
    /\ trim_request \in [total_segments : 0..MaxTrimSegments,
                          start : -2..MaxTrimValue,
                          end : -2..MaxTrimValue]
    /\ trimmed_segments = NoTrim

Trim ==
    /\ trim_pc = "request"
    /\ trimmed_segments' =
           trim(trim_request.total_segments, trim_request.start, trim_request.end)
    /\ trim_pc' = "done"
    /\ UNCHANGED trim_request
    /\ UNCHANGED <<parseVars, segmentVars, matchVars, exportVars, multiVars,
                   auxVars>>

-----------------------------------------------------------------------------
(* export_csv *)

NameNumbers == 0..(MaxExisting + MaxExports + 1)

\* a search for a free name whose counter starts at 2
UniqueName_skipsOne(taken, candidate, n) ==
    IF taken[candidate] = -1 THEN candidate
    ELSE CHOOSE m \in NameNumbers :
             /\ m >= n + 1
             /\ taken[m] = -1
             /\ \A j \in (n + 1)..(m - 1) : taken[j] # -1

\* lines 35-40 and 44-49: output_dir is the base name, n = 1, and while
\* output_dir exists it becomes the base name + f' ({n})' and n grows by one
RECURSIVE UniqueName(_, _, _)
UniqueName(taken, candidate, n) ==
    IF taken[candidate] = -1 THEN candidate
    ELSE UniqueName(taken, n, n + 1)

ExportIdle ==
    /\ path_is_file = FALSE
    /\ exists = [n \in NameNumbers |-> -1]
    /\ exported = <<>>

ExportInit ==
    /\ path_is_file \in BOOLEAN
    /\ exists \in [NameNumbers -> {-1, 0}]
    /\ \A n \in NameNumbers : n > MaxExisting => exists[n] = -1
    /\ exported = <<>>

\* export_csv, lines 34-51: the free name is searched (the same way in both
\* branches of the test on the path) and os.mkdir creates the directory, which
\* raises FileExistsError, and creates nothing, if the name is taken
ExportCsv ==
    /\ Len(exported) < MaxExports
    /\ LET output_dir == UniqueName(exists, 0, 1)
       IN  /\ exists[output_dir] = -1
           /\ exists' = [exists EXCEPT ![output_dir] = Len(exported) + 1]
           /\ exported' = Append(exported, output_dir)
    /\ UNCHANGED path_is_file
    /\ UNCHANGED <<parseVars, segmentVars, matchVars, trimVars, multiVars,
                   auxVars>>

-----------------------------------------------------------------------------
(* scripts/multiview *)

AllFiles == 1..MaxFiles

\* how subprocess.run(['cvp', '-p', file, '-v']) can end: exit status 0, a
\* non-zero exit status (returned, check is not set), or an exception raised
\* when the subprocess cannot be started, which run_cvp_script catches
Outcomes == {"exit 0", "exit 1", "exception"}

MultiIdle ==
    /\ mv_pc = "idle"
    /\ files = {}
    /\ submitted = {}
    /\ work_queue = <<>>
    /\ threads = 0
    /\ idle_semaphore = 0
    /\ busy = {}
    /\ launches = [f \in AllFiles |-> 0]
    /\ outcome = [f \in AllFiles |-> ""]

\* multiview(files), line 133: the executor is created
MultiInit ==
    /\ mv_pc = "map"
    /\ files \in SUBSET AllFiles
    /\ submitted = {}
    /\ work_queue = <<>>
    /\ threads = 0
    /\ idle_semaphore = 0
    /\ busy = {}
    /\ launches = [f \in AllFiles |-> 0]
    /\ outcome = [f \in AllFiles |-> ""]

\* line 134, executor.map: the next file of the set (in any order) is
\* submitted: its work item is queued, and a worker thread is started unless
\* a worker is idle or max_workers threads exist
Submit ==
    /\ mv_pc = "map"
    /\ \E f \in files \ submitted :
           /\ submitted' = submitted \cup {f}
           /\ work_queue' = Append(work_queue, f)
    /\ IF idle_semaphore > 0
       THEN idle_semaphore' = idle_semaphore - 1 /\ UNCHANGED threads
       ELSE /\ threads' = IF threads < max_workers THEN threads + 1 ELSE threads
            /\ UNCHANGED idle_semaphore
    /\ UNCHANGED <<mv_pc, files, busy, launches, outcome>>
    /\ UNCHANGED <<parseVars, segmentVars, matchVars, trimVars, exportVars,
                   auxVars>>

\* a worker thread that is not running a work item takes the head of the queue
\* and calls run_cvp_script(file), line 80
Launch ==
    /\ threads > Cardinality(busy)
    /\ work_queue # <<>>
    /\ LET f == Head(work_queue)
       IN  /\ busy' = busy \cup {f}
           /\ launches' = [launches EXCEPT ![f] = @ + 1]
    /\ work_queue' = Tail(work_queue)
    /\ UNCHANGED <<mv_pc, files, submitted, threads, idle_semaphore, outcome>>
    /\ UNCHANGED <<parseVars, segmentVars, matchVars, trimVars, exportVars,
                   auxVars>>

\* lines 79-82: subprocess.run returns, or raises and the exception is caught
\* and printed; the work item is over and the worker goes idle
Finish ==
    /\ \E f \in busy : \E o \in Outcomes :
           /\ outcome' = [outcome EXCEPT ![f] = o]
           /\ busy' = busy \ {f}
    /\ idle_semaphore' = idle_semaphore + 1
    /\ UNCHANGED <<mv_pc, files, submitted, work_queue, threads, launches>>
    /\ UNCHANGED <<parseVars, segmentVars, matchVars, trimVars, exportVars,
                   auxVars>>

\* the end of the with block, line 134: every file is submitted, map has
\* returned its iterator (which nobody reads) and shutdown(wait=True) begins
ExecutorShutdown ==
    /\ mv_pc = "map"
    /\ submitted = files
    /\ mv_pc' = "shutdown"
    /\ UNCHANGED <<files, submitted, work_queue, threads, idle_semaphore, busy,
                   launches, outcome>>
    /\ UNCHANGED <<parseVars, segmentVars, matchVars, trimVars, exportVars,
                   auxVars>>

\* a shutdown that does not wait for the workers
MultiviewReturns_noWait ==
    /\ mv_pc = "shutdown"
    /\ mv_pc' = "returned"
    /\ UNCHANGED <<files, submitted, work_queue, threads, idle_semaphore, busy,
                   launches, outcome>>
    /\ UNCHANGED <<parseVars, segmentVars, matchVars, trimVars, exportVars,
                   auxVars>>

\* shutdown(wait=True) joins the worker threads, which end once the queue is
\* empty and their work item is over; then multiview returns
MultiviewReturns ==
    /\ mv_pc = "shutdown"
    /\ work_queue = <<>>
    /\ busy = {}
    /\ mv_pc' = "returned"
    /\ UNCHANGED <<files, submitted, work_queue, threads, idle_semaphore, busy,
                   launches, outcome>>
    /\ UNCHANGED <<parseVars, segmentVars, matchVars, trimVars, exportVars,
                   auxVars>>

ToolIdle == TrimIdle /\ ExportIdle /\ MultiIdle

-----------------------------------------------------------------------------
(* io/parse_bin on bytes *)

\* a 32-bit float of the file stands in the model for the signed 32-bit
\* integer with the same four bytes (microvolts for potentials, tenths for the
\* polarity and num_segments words); the order of the bytes is that of the file

\* struct.pack('<f', x): the four bytes of a value, lowest first
pack_f(x) ==
    <<x % 256, (x \div 256) % 256, (x \div 65536) % 256, (x \div 16777216) % 256>>

\* an unpack that reads the highest byte first
unpack_f_bigEndian(b) ==
    b[4] + 256 * b[3] + 65536 * b[2]
        + 16777216 * (IF b[1] >= 128 THEN b[1] - 256 ELSE b[1])

\* struct.unpack('<f', b)[0] on four bytes
unpack_f(b) ==
    b[1] + 256 * b[2] + 65536 * b[3]
        + 16777216 * (IF b[4] >= 128 THEN b[4] - 256 ELSE b[4])

\* the Python slice b[lo:hi] of a bytes object (offsets count from 0)
Slice(b, lo, hi) ==
    SubSeq(b, lo + 1, IF hi < Len(b) THEN hi ELSE Len(b))

\* the offsets of the header fields _get_parameters reads, lines 65-82
offsets ==
    [init_E |-> 845, final_E |-> 849, high_E |-> 853, low_E |-> 857,
     scan_rate |-> 861, init_scan_polarity |-> 869, num_segments |-> 873,
     sample_interval |-> 877, sensitivity |-> 885, quiet_time |-> 889]

\* struct.unpack('<f', file_bytes[o:o + 4])[0]
Field(b, o) == unpack_f(Slice(b, o, o + 4))

\* the value of init_sweep_direction[0], 0 when the key is never set
DirectionOfPolarity(init_scan_polarity) ==
    IF init_scan_polarity = 1 THEN 1
    ELSE IF init_scan_polarity = 0 THEN -1
    ELSE 0

\* the exception _get_parameters ends with on these bytes, "" if none
HeaderError(b) ==
    IF Len(b) < header_end THEN "struct.error"
    ELSE IF DirectionOfPolarity(IntCast(Field(b, offsets.init_scan_polarity))) = 0
         THEN "TypeError"
    ELSE ""

\* _get_parameters, lines 62-89, on bytes
DecodeHeader(b) ==
    [init_E |-> Round3(Field(b, offsets.init_E)),
     final_E |-> Round3(Field(b, offsets.final_E)),
     high_E |-> Round3(Field(b, offsets.high_E)),
     low_E |-> Round3(Field(b, offsets.low_E)),
     scan_rate |-> Round5(Field(b, offsets.scan_rate)),
     init_sweep_direction |->
         DirectionOfPolarity(IntCast(Field(b, offsets.init_scan_polarity))),
     num_segments |-> IntCast(Field(b, offsets.num_segments)),
     sample_interval |-> Round5(Field(b, offsets.sample_interval)),
     sensitivity |-> Field(b, offsets.sensitivity),
     quiet_time |-> Field(b, offsets.quiet_time)]

\* the exception _unpack_data ends with on these bytes, "" if none
RecordsError(b) ==
    IF Len(Slice(b, data_start, Len(b))) % 4 # 0 THEN "struct.error" ELSE ""

\* _unpack_data, lines 92-96, on bytes: struct.iter_unpack over the region
DecodeRecords(b) ==
    LET cv_data == Slice(b, data_start, Len(b))
    IN  [i \in 1..(Len(cv_data) \div 4) |->
            unpack_f(SubSeq(cv_data, 4 * i - 3, 4 * i))]

\* the file of the reconstruction model that these bytes store
StoredFile(b) ==
    [init_E |-> Field(b, offsets.init_E),
     high_E |-> Field(b, offsets.high_E),
     low_E |-> Field(b, offsets.low_E),
     sample_interval |-> Field(b, offsets.sample_interval),
     polarity |-> Field(b, offsets.init_scan_polarity),
     samples |-> DecodeRecords(b),
     size |-> Len(b)]

\* the values of the twelve header words 845, 849, .. 889 of a buffer, all
\* different, in the first arrangement
HeaderValues ==
    <<1404, -1000499, 2000400, -2000, 100004, 77, 10, 40, 31404, -513, 123456, 2000000>>

\* the word at offset o in arrangement a: the values are rotated by a, and the
\* polarity word is the flag
HeaderWord(o, a, flag) ==
    IF o = offsets.init_scan_polarity THEN flag
    ELSE HeaderValues[((((o - offsets.init_E) \div 4) + a) % 12) + 1]

RecordValues == {-3, 66000}

\* the buffers of the model: filler bytes outside the header, the header
\* words of an arrangement, the records, and some trailing bytes
Buffers ==
    {[k \in 1..(data_start + 4 * Len(rs) + t) |->
         LET o == k - 1
         IN  IF o >= offsets.init_E /\ o < header_end
             THEN pack_f(HeaderWord(o - ((o - offsets.init_E) % 4), a, flag))
                      [((o - offsets.init_E) % 4) + 1]
             ELSE IF o >= data_start /\ o < data_start + 4 * Len(rs)
             THEN pack_f(rs[((o - data_start) \div 4) + 1])[((o - data_start) % 4) + 1]
             ELSE (o % 255) + 1] :
        a \in 0..(MaxArrangements - 1), flag \in {0, 10, 15, 20},
        rs \in UNION {[1..n -> RecordValues] : n \in 0..MaxRecords},
        t \in 0..MaxTrailing}

NoHeader ==
    [init_E |-> 0, final_E |-> 0, high_E |-> 0, low_E |-> 0, scan_rate |-> 0,
     init_sweep_direction |-> 0, num_segments |-> 0, sample_interval |-> 0,
     sensitivity |-> 0, quiet_time |-> 0]

DecodeIdle ==
    /\ decode_pc = "idle"
    /\ file_bytes = <<>>
    /\ decoded_parameters = NoHeader
    /\ decoded_current = <<>>
    /\ decode_error = ""

\* parse_bin_file after _read_bin, line 47: a buffer, whole or cut inside the
\* header
DecodeInit ==
    /\ decode_pc = "start"
    /\ \E b \in Buffers : file_bytes \in {b, SubSeq(b, 1, header_end - 1)}
    /\ decoded_parameters = NoHeader
    /\ decoded_current = <<>>
    /\ decode_error = ""

\* lines 48-49: parameters = _get_parameters(file_bytes) and
\* current = _unpack_data(file_bytes)
Decode ==
    /\ decode_pc = "start"
    /\ IF HeaderError(file_bytes) # ""
       THEN /\ decode_error' = HeaderError(file_bytes)
            /\ decode_pc' = "error"
            /\ UNCHANGED <<decoded_parameters, decoded_current>>
       ELSE IF RecordsError(file_bytes) # ""
       THEN /\ decoded_parameters' = DecodeHeader(file_bytes)
            /\ decode_error' = RecordsError(file_bytes)
            /\ decode_pc' = "error"
            /\ UNCHANGED decoded_current
       ELSE /\ decoded_parameters' = DecodeHeader(file_bytes)
            /\ decoded_current' = DecodeRecords(file_bytes)
            /\ decode_pc' = "done"
            /\ UNCHANGED decode_error
    /\ UNCHANGED file_bytes
    /\ UNCHANGED <<parseVars, segmentVars, matchVars, toolVars, shareVars,
                   checkVars>>

-----------------------------------------------------------------------------
(* segment.Segment: the lists of several instances *)

ListAttributes == {"peaks", "ehalfs", "peak_separations"}

\* the list objects made when the def statement of __init__ is executed,
\* lines 28-30: one per default value
DefaultLists == [peaks |-> 1, ehalfs |-> 2, peak_separations |-> 3]

NoCall == [op |-> "", k |-> 0, attribute |-> ""]

\* the class is defined and no Segment is made yet
ShareInit ==
    /\ heap = <<<<>>, <<>>, <<>>>>
    /\ instances = <<>>
    /\ call = NoCall

ShareIdle == ShareInit

\* Segment(index, data), lines 48-53: the attributes are bound to the default
\* objects
ConstructDefault ==
    /\ Len(instances) < MaxInstances
    /\ instances' = Append(instances, DefaultLists)
    /\ call' = [op |-> "Segment(index, data)", k |-> Len(instances) + 1, attribute |-> ""]
    /\ UNCHANGED heap
    /\ UNCHANGED <<parseVars, segmentVars, matchVars, toolVars, decodeVars,
                   checkVars>>

\* Segment(index, data, [], [], []): the attributes are bound to three new
\* lists the caller passes
ConstructExplicit ==
    /\ Len(instances) < MaxInstances
    /\ heap' = heap \o <<<<>>, <<>>, <<>>>>
    /\ instances' = Append(instances,
                           [peaks |-> Len(heap) + 1, ehalfs |-> Len(heap) + 2,
                            peak_separations |-> Len(heap) + 3])
    /\ call' = [op |-> "Segment(index, data, [], [], [])", k |-> Len(instances) + 1,
                attribute |-> ""]
    /\ UNCHANGED <<parseVars, segmentVars, matchVars, toolVars, decodeVars,
                   checkVars>>

\* the total number of entries of all lists
RECURSIVE Entries(_, _)
Entries(h, k) == IF k = 0 THEN 0 ELSE Entries(h, k - 1) + Len(h[k])

\* segment.<attribute>.append(x) on the k-th instance, as a matcher that
\* fills the lists in place does
AppendInPlace ==
    /\ Entries(heap, Len(heap)) < MaxAppends
    /\ \E k \in 1..Len(instances) : \E a \in ListAttributes :
           /\ heap' = [heap EXCEPT ![instances[k][a]] = Append(@, 200000)]
           /\ call' = [op |-> "append", k |-> k, attribute |-> a]
    /\ UNCHANGED instances
    /\ UNCHANGED <<parseVars, segmentVars, matchVars, toolVars, decodeVars,
                   checkVars>>

-----------------------------------------------------------------------------
(* the checks of the trim option: helpers.check_start_and_segments and
   cli._check_trim_values *)

\* the parameter data_start of both functions is called start here, data_start
\* being the offset of the records above

\* a check that does not clamp a first segment below 1
check_start_and_segments_noLowerClamp(columns, start, num_segments) ==
    LET s == IF start > columns THEN columns ELSE start
        c == IF s + num_segments > columns \/ num_segments <= 0
             THEN columns - (s - 1)
             ELSE num_segments
    IN  <<s, c>>

\* helpers.check_start_and_segments, lines 35-41, on a voltammogram of
\* len(voltammogram.columns) = columns segments
check_start_and_segments(columns, start, num_segments) ==
    LET s == IF start > columns THEN columns
             ELSE IF start <= 0 THEN 1
             ELSE start
        c == IF s + num_segments > columns \/ num_segments <= 0
             THEN columns - (s - 1)
             ELSE num_segments
    IN  <<s, c>>

\* cli._check_trim_values, lines 431-439 (scripts/cli.py lines 394-402 are the
\* same), on a voltammogram of len(voltammogram.voltammogram) = length segments
_check_trim_values(length, start, segments) ==
    LET s == IF start > length THEN length - 1 ELSE start
        c == IF s + segments > length \/ segments = 0
             THEN length - (s - 1)
             ELSE segments
    IN  <<s, c>>

NoCheck == [by |-> "", result |-> <<0, 0>>]

CheckIdle ==
    /\ check_pc = "idle"
    /\ check_request = [segments |-> 0, first |-> 0, total |-> 0]
    /\ checked = NoCheck

\* a voltammogram of one or more segments and any pair of integers
CheckInit ==
    /\ check_pc = "request"
    /\ check_request \in [segments : 1..MaxTrimSegments,
                           first : -2..MaxTrimValue,
                           total : -2..MaxTrimValue]
    /\ checked = NoCheck

CheckStartAndSegments ==
    /\ check_pc = "request"
    /\ checked' = [by |-> "check_start_and_segments",
                   result |-> check_start_and_segments(check_request.segments,
                                  check_request.first, check_request.total)]
    /\ check_pc' = "done"
    /\ UNCHANGED check_request
    /\ UNCHANGED <<parseVars, segmentVars, matchVars, toolVars, decodeVars,
                   shareVars>>

CheckTrimValues ==
    /\ check_pc = "request"
    /\ checked' = [by |-> "_check_trim_values",
                   result |-> _check_trim_values(check_request.segments,
                                  check_request.first, check_request.total)]
    /\ check_pc' = "done"
    /\ UNCHANGED check_request
    /\ UNCHANGED <<parseVars, segmentVars, matchVars, toolVars, decodeVars,
                   shareVars>>

AuxIdle == DecodeIdle /\ ShareIdle /\ CheckIdle

-----------------------------------------------------------------------------
(* Specifications *)

\* parse_bin_file on a file
Init == ParseInit /\ SegmentIdle /\ MatchIdle /\ ToolIdle /\ AuxIdle

Next == ParseBinFile \/ BuildSegmentsStep \/ BuildVoltammogram

Spec == Init /\ [][Next]_vars

\* a Segment and the calls of its methods
InitSegment == ParseIdle /\ SegmentInit /\ MatchIdle /\ ToolIdle /\ AuxIdle

NextSegment == ApplyCorrection \/ FindPeaks

SpecSegment == InitSegment /\ [][NextSegment]_vars

\* a Voltammogram that processes its data, and ehalf.find_ehalfs on that data
InitMatch == ParseIdle /\ SegmentIdle /\ MatchInit /\ ToolIdle /\ AuxIdle

NextMatch ==
    \/ Construct
    \/ ProcessFindPeaks
    \/ ProcessFindEhalfs
    \/ ProcessPrintEhalfs
    \/ ProcessFinish
    \/ CallFindEhalfs

SpecMatch == InitMatch /\ [][NextMatch]_vars

\* Voltammogram(path, reference) on peaks a limit apart
InitReference == ParseIdle /\ SegmentIdle /\ MatchInitReference /\ ToolIdle /\ AuxIdle

NextReference ==
    \/ Construct
    \/ ProcessFindPeaks
    \/ ProcessFindEhalfs
    \/ ProcessPrintEhalfs
    \/ ProcessFinish

SpecReference == InitReference /\ [][NextReference]_vars

\* a trim of a voltammogram
InitTrim ==
    ParseIdle /\ SegmentIdle /\ MatchIdle /\ TrimInit /\ ExportIdle /\ MultiIdle
        /\ AuxIdle

NextTrim == Trim

SpecTrim == InitTrim /\ [][NextTrim]_vars

\* successive exports of one file into one directory
InitExport ==
    ParseIdle /\ SegmentIdle /\ MatchIdle /\ TrimIdle /\ ExportInit /\ MultiIdle
        /\ AuxIdle

NextExport == ExportCsv

SpecExport == InitExport /\ [][NextExport]_vars

\* multiview on a set of files
InitMultiview ==
    ParseIdle /\ SegmentIdle /\ MatchIdle /\ TrimIdle /\ ExportIdle /\ MultiInit
        /\ AuxIdle

NextMultiview ==
    \/ Submit
    \/ Launch
    \/ Finish
    \/ ExecutorShutdown
    \/ MultiviewReturns

SpecMultiview == InitMultiview /\ [][NextMultiview]_vars

\* file_parse.parse_bin_file on a file
NextFileParse ==
    \/ FileParseStart
    \/ FileParseSegmentsStep
    \/ FileParseBuildVoltammogram

SpecFileParse == Init /\ [][NextFileParse]_vars

\* the decoding of the bytes of a file
InitDecode ==
    /\ ParseIdle /\ SegmentIdle /\ MatchIdle /\ ToolIdle
    /\ DecodeInit /\ ShareIdle /\ CheckIdle

NextDecode == Decode

SpecDecode == InitDecode /\ [][NextDecode]_vars

\* constructions of Segments and in-place appends to their lists
InitShare ==
    /\ ParseIdle /\ SegmentIdle /\ MatchIdle /\ ToolIdle
    /\ DecodeIdle /\ ShareInit /\ CheckIdle

NextShare ==
    \/ ConstructDefault
    \/ ConstructExplicit
    \/ AppendInPlace

SpecShare == InitShare /\ [][NextShare]_vars

\* a check of the values of the trim option
InitCheck ==
    /\ ParseIdle /\ SegmentIdle /\ MatchIdle /\ ToolIdle
    /\ DecodeIdle /\ ShareIdle /\ CheckInit

NextCheck ==
    \/ CheckStartAndSegments
    \/ CheckTrimValues

SpecCheck == InitCheck /\ [][NextCheck]_vars

-----------------------------------------------------------------------------
(* Properties of io/parse_bin *)

\* the (potential, current) samples of the stream, in file order
InputSamples ==
    [i \in 1..Len(potential) |-> [pot |-> potential[i], cur |-> current[i]]]

\* the samples a column of the frame holds, in the order of the frame's rows
ColumnSamples(frame, k) ==
    LET rows == SelectSeq([r \in 1..Len(frame.index) |-> r],
                          LAMBDA r : ~frame.columns[k][r].nan)
    IN  [j \in 1..Len(rows) |->
            [pot |-> frame.index[rows[j]], cur |-> frame.columns[k][rows[j]].val]]

RECURSIVE ConcatColumns(_, _)
ConcatColumns(frame, k) ==
    IF k = 0 THEN <<>>
    ELSE ConcatColumns(frame, k - 1) \o ColumnSamples(frame, k)

Count(s, x) == Cardinality({i \in 1..Len(s) : s[i] = x})

IsPermutation(s, t) ==
    /\ Len(s) = Len(t)
    /\ \A i \in 1..Len(s) : Count(s, s[i]) = Count(t, s[i])

Reverse(s) == [i \in 1..Len(s) |-> s[Len(s) + 1 - i]]

\* the samples of the k-th block of the stream cut at the recorded boundaries
TimeBlock(k) ==
    SubSeq(InputSamples, segment_indices[k] + 1, segment_indices[k + 1])

Parsed == pc = "done" /\ NumRecords(file) >= 1

C2_BoundaryAtTurningPoint ==
    /\ [][Len(potential') = Len(potential) + 1 =>
            LET i == Len(potential)
                after == v + Round3(parameters.sample_interval * sweep_direction)
                turns == \/ Abs(after - parameters.high_E) < 100
                         \/ Abs(after - parameters.low_E) < 100
            IN  /\ v' = after
                /\ turns => /\ segment_indices' = Append(segment_indices, i + 1)
                            /\ sweep_direction' = -sweep_direction
                /\ ~turns => /\ segment_indices' = segment_indices
                             /\ sweep_direction' = sweep_direction]_vars
    /\ [](file = RampFile /\ pc = "done" =>
            /\ segment_indices = <<0, 5, 15, 25, 35, 40>>
            /\ [k \in 1..5 |-> Len(ColumnSamples(voltammogram, k))]
                   = <<5, 10, 10, 10, 5>>)

C2_Witness ==
    /\ file = RampFile
    /\ pc = "done"
    /\ Len(voltammogram.columns) = 5
    /\ sweep_direction = 1

IsAscending(s) == \A i \in 1..(Len(s) - 1) : s[i].pot <= s[i + 1].pot
IsDescending(s) == \A i \in 1..(Len(s) - 1) : s[i].pot > s[i + 1].pot

C10_EmptyStreamYieldsNoSegments ==
    (/\ ParametersError(file) = ""
     /\ RegionLength(file) = 0
     /\ pc \notin {"start", "build_segments"}) =>
        (pc = "done" /\ error = "" /\ Len(voltammogram.columns) = 0)

\* parse_bin_file has returned or raised
Ended == pc \in {"done", "error"}

\* the header decodes and the record region is a whole number of records
WellFormed(f) == ParametersError(f) = "" /\ UnpackError(f) = ""

\* the running potential after the advance past sample i (1-based) of a sweep
\* that has not turned before
RunningPotential(f, i) ==
    Round3(f.init_E) + i * Round3(Round5(f.sample_interval) * SweepDirectionOf(f))

\* the running potential never comes within the tolerance of high_E or low_E
NonTurning(f) ==
    \A i \in 1..NumRecords(f) :
        /\ Abs(RunningPotential(f, i) - Round3(f.high_E)) >= 100
        /\ Abs(RunningPotential(f, i) - Round3(f.low_E)) >= 100

\* C11: a well-formed file of n >= 1 records whose running potential never
\* comes within the tolerance of high_E or low_E is parsed without error into
\* exactly one segment, and that segment holds all n samples, whatever the
\* currents are.
C11_NonTurningStreamIsOneSegment ==
    (Ended /\ WellFormed(file) /\ NumRecords(file) >= 1 /\ NonTurning(file)) =>
        /\ pc = "done"
        /\ Len(voltammogram.columns) = 1
        /\ Len(voltammogram.index) = NumRecords(file)
        /\ IsPermutation(ColumnSamples(voltammogram, 1), InputSamples)

\* a non-turning sweep of three or more distinct potentials, all currents zero
C11_Witness ==
    /\ pc = "done"
    /\ NonTurning(file)
    /\ NumRecords(file) >= 3
    /\ potential[1] # potential[2]
    /\ \A i \in 1..Len(current) : current[i] = 0
    /\ Len(voltammogram.columns) = 1

\* C12: when the record region is not a whole number of records, decoding
\* succeeds, the trailing 1 to 3 bytes are ignored, and floor(region / 4)
\* currents and as many potentials are produced.
C12_TrailingBytesIgnored ==
    (Ended /\ ParametersError(file) = "" /\ RegionLength(file) % 4 # 0) =>
        /\ error = ""
        /\ Len(current) = RegionLength(file) \div 4
        /\ Len(potential) = Len(current)

\* C13: a buffer shorter than the 893-byte header, or one without a complete
\* record, ends in FormatError and in no other outcome.
C13_ShortBufferEndsInFormatError ==
    (Ended /\ (file.size < header_end \/ RegionLength(file) < 4)) =>
        (pc = "error" /\ error = "FormatError")

\* C14: with a complete header, the initial sweep direction is +1 when the
\* polarity flag cast to an integer is 1 and -1 when it is 0, and for every
\* other flag decoding ends in FormatError.
C14_PolarityElseFormatError ==
    (pc # "start" /\ file.size >= header_end) =>
        IF IntCast(file.polarity) = 1 THEN parameters.init_sweep_direction = 1
        ELSE IF IntCast(file.polarity) = 0 THEN parameters.init_sweep_direction = -1
        ELSE pc = "error" /\ error = "FormatError"

\* the segment (0-based) of sample i (1-based): the boundaries placed at or
\* before the sample, the leading 0 not counted
SegmentOfSample(i) ==
    Cardinality({k \in 2..Len(segment_indices) : segment_indices[k] <= i - 1})

\* the direction of segment k: the initial direction times (-1)^k
DirectionOfSegment(k) ==
    IF k % 2 = 0 THEN parameters.init_sweep_direction
    ELSE -parameters.init_sweep_direction

\* the 3-decimal step of segment k
StepOfSegment(k) == Round3(parameters.sample_interval * DirectionOfSegment(k))

\* C22: the potential of a sample is recorded before the advance: the first
\* potential is init_E; two successive samples of one segment differ by that
\* segment's 3-decimal step sample_interval * d, d being the initial direction
\* times (-1)^k for segment k, so a segment with a non-zero step is strictly
\* monotonic; and while the walk is in segment k its direction is that d.
C22_PotentialRecordedBeforeAdvance ==
    pc \in {"build_segments", "done", "error"} =>
        /\ Len(potential) >= 1 => potential[1] = parameters.init_E
        /\ \A i \in 1..(Len(potential) - 1) :
               SegmentOfSample(i) = SegmentOfSample(i + 1) =>
                   /\ potential[i + 1] = potential[i] + StepOfSegment(SegmentOfSample(i))
                   /\ StepOfSegment(SegmentOfSample(i)) > 0 => potential[i] < potential[i + 1]
                   /\ StepOfSegment(SegmentOfSample(i)) < 0 => potential[i] > potential[i + 1]
        /\ pc = "build_segments" =>
               sweep_direction = DirectionOfSegment(Len(segment_indices) - 1)

\* two segments of two samples each, swept with a non-zero step in opposite
\* directions
C22_Witness ==
    /\ pc = "done"
    /\ Len(segment_indices) >= 3
    /\ segment_indices[2] = 2
    /\ segment_indices[3] = 4
    /\ potential[1] < potential[2]
    /\ potential[3] > potential[4]

\* C23: for n >= 1 samples the boundaries start at 0, are strictly increasing
\* and end at n, which occurs once: the final boundary is added only when the
\* loop has not placed one at n, and no segment is empty.
C23_BoundariesEndAtNOnce ==
    (Ended /\ WellFormed(file) /\ NumRecords(file) >= 1) =>
        /\ segment_indices[1] = 0
        /\ \A k \in 1..(Len(segment_indices) - 1) :
               segment_indices[k] < segment_indices[k + 1]
        /\ segment_indices[Len(segment_indices)] = Len(potential)
        /\ Count(segment_indices, Len(potential)) = 1
        /\ Len(potential) = NumRecords(file)

\* the advance past the last sample lands on a turning point, so the loop has
\* already placed the boundary n
C23_Witness ==
    /\ pc = "done"
    /\ Len(potential) >= 2
    /\ TurningPoint(v, parameters)
    /\ segment_indices[Len(segment_indices)] = Len(potential)
    /\ Len(segment_indices) >= 3

\* C27: with low_E <= init_E <= high_E, low_E < high_E and a positive
\* sample_interval, every synthesized potential lies within [low_E, high_E].
C27_PotentialsWithinLimits ==
    (/\ pc \in {"build_segments", "done"}
     /\ parameters.low_E <= parameters.init_E
     /\ parameters.init_E <= parameters.high_E
     /\ parameters.low_E < parameters.high_E
     /\ parameters.sample_interval > 0) =>
        \A i \in 1..Len(potential) :
            parameters.low_E <= potential[i] /\ potential[i] <= parameters.high_E

-----------------------------------------------------------------------------
(* Properties of segment.Segment *)

\* x is y rounded to 3 decimals: a multiple of 0.001 V at most 0.0005 V from y
IsRounded3(x, y) == x % 1000 = 0 /\ 2 * Abs(x - y) <= 1000

\* C7: apply_correction(c) replaces every potential of processed by
\* (potential - c) rounded to 3 decimals and changes nothing else: not the raw
\* trace, whatever c and however many calls, not the processed currents, the
\* number of samples, the peaks, the ehalfs, the separations or the index.
C7_CorrectionLeavesRawAlone ==
    /\ [](segment.raw = data)
    /\ [][Len(applied') = Len(applied) + 1 =>
            LET c == applied'[Len(applied')]
            IN  /\ segment'.raw = segment.raw
                /\ segment'.processed.values = segment.processed.values
                /\ Len(segment'.processed.index) = Len(segment.processed.index)
                /\ \A i \in 1..Len(segment.processed.index) :
                       IsRounded3(segment'.processed.index[i],
                                  segment.processed.index[i] - c)
                /\ segment'.peaks = segment.peaks
                /\ segment'.ehalfs = segment.ehalfs
                /\ segment'.peak_separations = segment.peak_separations
                /\ segment'.index = segment.index]_vars

\* two corrections have moved processed away from raw, and there are peaks
C7_Witness ==
    /\ Len(applied) = 2
    /\ applied[1] # 0
    /\ segment.processed.index # segment.raw.index
    /\ segment.raw = data
    /\ segment.peaks # <<>>

\* the potentials of processed are those of data shifted by -total, rounded
ShiftedBy(total) ==
    /\ Len(segment.processed.index) = Len(data.index)
    /\ \A i \in 1..Len(data.index) :
           IsRounded3(segment.processed.index[i], data.index[i] - total)

-----------------------------------------------------------------------------
(* Properties of the half-wave matcher *)

\* (potential, current) of the peaks of segment k (from 1) of a frame, the
\* peak positions counting from 0
PeakCoordinates(frame, peaks, k) ==
    [j \in 1..Len(peaks[k]) |->
        [pot |-> frame.index[peaks[k][j] + 1],
         cur |-> frame.columns[k][peaks[k][j] + 1].val]]

\* the rule of the claims: at most the limit apart, and in valid order
Accepts(a, b, limit) ==
    /\ Abs(a.pot - b.pot) <= limit
    /\ \/ (a.cur > b.cur /\ a.pot < b.pot)
       \/ (a.cur < b.cur /\ a.pot > b.pot)

\* the accepted pairs of peaks of segments i and i + 1 in discovery order:
\* ascending peak of segment i, and for each ascending peak of segment i + 1
AcceptedPairs(frame, peaks, limit, i) ==
    LET A == PeakCoordinates(frame, peaks, i)
        B == PeakCoordinates(frame, peaks, i + 1)
        all == [k \in 1..(Len(A) * Len(B)) |->
                   [a |-> A[((k - 1) \div Len(B)) + 1], b |-> B[((k - 1) % Len(B)) + 1]]]
    IN  SelectSeq(all, LAMBDA pr : Accepts(pr.a, pr.b, limit))

SegmentPairs == 1..(Len(self_voltammogram.columns) - 1)

Matched == vpc \in {"print_E_halfs", "correct", "done"}

C4_MidpointAndSeparation ==
    ehalf_result.set =>
        \A i \in SegmentPairs :
            LET acc == AcceptedPairs(self_voltammogram, self_peaks, peak_sep_limit, i)
                e == ehalf_result.e_halfs[i]
                s == ehalf_result.peak_separations[i]
            IN  /\ Len(e) = Len(acc) /\ Len(s) = Len(acc)
                /\ \A k \in 1..Len(acc) :
                       /\ e[k] % 10000 = 0
                       /\ Abs(2 * e[k] - (acc[k].a.pot + acc[k].b.pot)) <= 10000
                       /\ s[k] = Abs(acc[k].a.pot - acc[k].b.pot)
                /\ (\E k \in 1..Len(acc) :
                        acc[k].a.pot = 100000 /\ acc[k].b.pot = 300000) =>
                       \E k \in 1..Len(acc) : e[k] = 200000 /\ s[k] = 200000

\* the pair of the example alone: (0.10 V, 5) and (0.30 V, -3)
C4_Witness ==
    /\ ehalf_result.set
    /\ \E i \in SegmentPairs :
           /\ PeakCoordinates(self_voltammogram, self_peaks, i)
                  = <<[pot |-> 100000, cur |-> 5]>>
           /\ PeakCoordinates(self_voltammogram, self_peaks, i + 1)
                  = <<[pot |-> 300000, cur |-> -3]>>
           /\ ehalf_result.e_halfs[i] = <<200000>>
           /\ ehalf_result.peak_separations[i] = <<200000>>

\* C5: find_ehalfs returns, for every segment pair, one E1/2 and one separation
\* for every accepted pair of the cross product, in discovery order; nothing is
\* deduplicated, a peak may take part in several entries.
C5_AllPairsInDiscoveryOrder ==
    ehalf_result.set =>
        /\ Len(ehalf_result.e_halfs) = Cardinality(SegmentPairs)
        /\ \A i \in SegmentPairs :
               LET acc == AcceptedPairs(self_voltammogram, self_peaks, peak_sep_limit, i)
               IN  /\ ehalf_result.e_halfs[i] =
                          [k \in 1..Len(acc) |-> Round2((acc[k].a.pot + acc[k].b.pot) \div 2)]
                   /\ ehalf_result.peak_separations[i] =
                          [k \in 1..Len(acc) |-> Abs(acc[k].a.pot - acc[k].b.pot)]

\* one peak of segment i is matched with two peaks of segment i + 1, and the
\* two entries differ
C5_Witness ==
    /\ ehalf_result.set
    /\ \E i \in SegmentPairs :
           LET acc == AcceptedPairs(self_voltammogram, self_peaks, peak_sep_limit, i)
           IN  /\ Len(acc) >= 2
               /\ \E k \in 1..(Len(acc) - 1) :
                      /\ acc[k].a = acc[k + 1].a
                      /\ acc[k].b # acc[k + 1].b
                      /\ ehalf_result.e_halfs[i][k] < ehalf_result.e_halfs[i][k + 1]

Zip(s, t) == [k \in 1..Len(s) |-> <<s[k], t[k]>>]

\* C6: once process_data has finished, peak_separations[i][k] is the separation
\* of the accepted pair whose rounded midpoint is E_halfs[i][k], for every
\* segment pair i and position k.  (The potentials of the peaks are read from
\* the frame as it stands, its index already relative to the reference.)
C6_SeparationsParallelToEhalfs ==
    is_processed =>
        \A i \in SegmentPairs :
            LET acc == AcceptedPairs(self_voltammogram, self_peaks, peak_sep_limit, i)
            IN  /\ Len(E_halfs[i]) = Len(peak_separations[i])
                /\ IsPermutation(
                       Zip(E_halfs[i], peak_separations[i]),
                       [k \in 1..Len(acc) |->
                           <<Round2((acc[k].a.pot + acc[k].b.pot) \div 2),
                             Abs(acc[k].a.pot - acc[k].b.pot)>>])

-----------------------------------------------------------------------------
(* Properties of the trim *)

\* the segments a 1-based inclusive range (start, end) names among 1..n, where
\* end = -1 stands for "to the end"
NamedSegments(n, start, end) ==
    {k \in 1..n : start <= k /\ (end = -1 \/ k <= end)}

\* C15: a trim of N segments to (start, end) keeps the 1-based inclusive range
\* [max(start, 1), e] with e = N when end >= N or end = -1 and e = end
\* otherwise, and fails with InvalidRangeError when start > e after the
\* clamping; on 3 segments trim(0, 5) and trim(1, -1) keep (1, 3) and
\* trim(5, 2) raises InvalidRangeError.
C15_TrimClampsToRange ==
    trim_pc = "done" =>
        LET n == trim_request.total_segments
            named == NamedSegments(n, trim_request.start, trim_request.end)
            kept == {trimmed_segments.segments[i] :
                        i \in 1..Len(trimmed_segments.segments)}
        IN  /\ (trimmed_segments.error = "InvalidRangeError") <=> (named = {})
            /\ trimmed_segments.error \in {"", "InvalidRangeError"}
            /\ trimmed_segments.error = "" =>
                   /\ kept = named
                   /\ \A i \in 1..(Len(trimmed_segments.segments) - 1) :
                          trimmed_segments.segments[i + 1] =
                              trimmed_segments.segments[i] + 1
                   /\ Len(trimmed_segments.segments) = Cardinality(named)
                   /\ \A k \in named :
                          trimmed_segments.start <= k /\ k <= trimmed_segments.end
                   /\ trimmed_segments.start \in named
                   /\ trimmed_segments.end \in named
            /\ (n = 3 /\ trim_request.start = 0 /\ trim_request.end = 5) =>
                   (trimmed_segments.start = 1 /\ trimmed_segments.end = 3)
            /\ (n = 3 /\ trim_request.start = 1 /\ trim_request.end = -1) =>
                   (trimmed_segments.start = 1 /\ trimmed_segments.end = 3)
            /\ (n = 3 /\ trim_request.start = 5 /\ trim_request.end = 2) =>
                   trimmed_segments.error = "InvalidRangeError"

\* trim(2, -1) on 4 segments keeps the segments 2, 3, 4
C15_Witness ==
    /\ trim_pc = "done"
    /\ trim_request = [total_segments |-> 4, start |-> 2, end |-> -1]
    /\ trimmed_segments.segments = <<2, 3, 4>>

-----------------------------------------------------------------------------
(* Properties of the results and of the stages of the processing *)

\* C16: ehalf.find_ehalfs returns, for N segments, max(N - 1, 0) lists of E1/2
\* values and as many lists of separations (none for N = 0 and N = 1), and
\* the two lists of the pair (i, i + 1) are empty whenever segment i or
\* segment i + 1 has no detected peak.
C16_EmptyPeaksGiveEmptyResults ==
    ehalf_result.set =>
        LET N == Len(self_voltammogram.columns)
            pairs == IF N >= 1 THEN N - 1 ELSE 0
        IN  /\ Len(ehalf_result.e_halfs) = pairs
            /\ Len(ehalf_result.peak_separations) = pairs
            /\ \A i \in 1..pairs :
                   (Len(self_peaks[i]) = 0 \/ Len(self_peaks[i + 1]) = 0) =>
                       /\ ehalf_result.e_halfs[i] = <<>>
                       /\ ehalf_result.peak_separations[i] = <<>>

\* two segments, the first without a peak and the second with one (frames
\* of no segment and of one segment are reached as well)
C16_Witness ==
    /\ ehalf_result.set
    /\ Len(self_voltammogram.columns) = 2
    /\ Len(self_peaks[1]) = 0
    /\ Len(self_peaks[2]) > 0
    /\ ehalf_result.e_halfs = <<<<>>>>

\* C17: a Voltammogram constructed with view_only = True has peaks, E_halfs,
\* peak_separations and corrected_voltammogram unset and is_processed false;
\* and is_processed is true only when peaks and E_halfs are set.
C17_ViewOnlyStopsAfterDecoding ==
    /\ (view_only /\ vpc # "__init__") =>
           /\ vpc = "viewing"
           /\ is_none = Attributes
           /\ ~is_processed
           /\ self_peaks = <<>> /\ E_halfs = <<>> /\ peak_separations = <<>>
           /\ corrected_voltammogram = NoFrame
    /\ is_processed => ("peaks" \notin is_none /\ "E_halfs" \notin is_none)

\* a view-only Voltammogram whose data holds peaks that would have matched
C17_Witness ==
    /\ view_only
    /\ vpc = "viewing"
    /\ Len(self_voltammogram.columns) = 2
    /\ Len(find_Ehalfs(self_voltammogram, detector, reference, peak_sep_limit).E_halfs[1]) > 0

-----------------------------------------------------------------------------
(* Properties of export_csv *)

\* C19: an export never writes into an existing target: it creates the base
\* name when that is free and else the name base + " (n)" for the smallest
\* n >= 1 that does not exist, and leaves every other entry as it is; so k
\* successive exports into a directory that held none of these names create
\* the k distinct outputs base, base (1), ..., base (k-1).
C19_ExportPicksSmallestFreeName ==
    /\ [][exported' # exported =>
            LET new == exported'[Len(exported')]
            IN  /\ exported' = Append(exported, new)
                /\ exists[new] = -1
                /\ \A m \in NameNumbers : m < new => exists[m] # -1
                /\ exists'[new] = Len(exported')
                /\ \A m \in NameNumbers : m # new => exists'[m] = exists[m]]_vars
    /\ [](/\ \A i, j \in 1..Len(exported) : i # j => exported[i] # exported[j]
          /\ \A i \in 1..Len(exported) : exists[exported[i]] = i
          /\ (\A n \in NameNumbers : exists[n] # 0) =>
                 exported = [i \in 1..Len(exported) |-> i - 1])

\* base and base (2) were there before: three exports create base (1),
\* base (3) and base (4)
C19_Witness ==
    /\ exported = <<1, 3, 4>>
    /\ exists[0] = 0
    /\ exists[2] = 0

-----------------------------------------------------------------------------
(* Properties of multiview *)

\* C20: in every interleaving of the main thread and the workers, no file is
\* launched twice and no file outside the set is launched; however the runs
\* of other files end (non-zero exit or exception), multiview can always go
\* on until it returns; and when it has returned every file of the set has
\* been launched exactly once and its run has finished.
C20_EveryFileLaunchedOnce ==
    /\ \A f \in AllFiles : launches[f] <= 1
    /\ \A f \in AllFiles \ files : launches[f] = 0
    /\ \A f \in AllFiles : outcome[f] # "" => launches[f] = 1
    /\ mv_pc # "returned" => ENABLED NextMultiview
    /\ mv_pc = "returned" =>
           /\ busy = {}
           /\ \A f \in files : launches[f] = 1 /\ outcome[f] \in Outcomes

\* three files: the first run cannot be started, the second exits with a
\* non-zero status, the third exits normally, and multiview has returned
C20_Witness ==
    /\ mv_pc = "returned"
    /\ files = {1, 2, 3}
    /\ outcome[1] = "exception"
    /\ outcome[2] = "exit 1"
    /\ outcome[3] = "exit 0"

-----------------------------------------------------------------------------
(* Properties of the reference correction *)

\* C26: the correction step of process_data with a reference r # 0 leaves the
\* data of the attribute voltammogram as decoded, and corrected_voltammogram
\* holds its potentials shifted by -r.
C26_CorrectionLeavesVoltammogramAlone ==
    [][(vpc = "correct" /\ vpc' = "done" /\ reference # 0) =>
            /\ self_voltammogram' = self_voltammogram
            /\ corrected_voltammogram'
                   = _relative_to_ferrocenium(self_voltammogram, reference)]_vars

\* C30: in find_Ehalfs the reference only shifts the reported values: with
\* the same frame and peaks, every other reference gives, for every segment
\* pair, the same number of accepted pairs and the same separations in the
\* same order.
C30_ReferenceOnlyShifts ==
    vpc = "print_E_halfs" =>
        \A r \in References :
            LET other == find_Ehalfs(self_voltammogram, self_peaks, r, peak_sep_limit)
            IN  /\ other.peak_separations = peak_separations
                /\ \A i \in SegmentPairs : Len(other.E_halfs[i]) = Len(E_halfs[i])

-----------------------------------------------------------------------------
(* Properties of the decoding of bytes *)

\* the little-endian value of the four bytes at offset o of the file
WordAt(o) ==
    LET byte(k) == file_bytes[o + k + 1]
        high == IF byte(3) >= 128 THEN byte(3) - 256 ELSE byte(3)
    IN  byte(0) + 256 * (byte(1) + 256 * (byte(2) + 256 * high))

\* the file with the four bytes at offset o replaced
Overwritten(o, b) ==
    [k \in 1..Len(file_bytes) |->
        IF k - 1 >= o /\ k - 1 < o + 4 THEN b[k - o] ELSE file_bytes[k]]

\* C21: decoding returns the layout of the file: every scan parameter is the
\* little-endian word at its fixed offset (845 init_E, 849 final_E, 853 high_E,
\* 857 low_E, 861 scan_rate, 869 polarity, 873 num_segments, 877
\* sample_interval, 885 sensitivity, 889 quiet_time) under the rounding or
\* integer cast of its field, the words at 865 and 881 have no influence,
\* and the currents are the 4-byte records from offset 1445 to the end of the
\* file, one per record, in file order.
C21_DecodeIsRoundTripOfLayout ==
    /\ decode_pc \in {"done", "error"} /\ decode_error # "struct.error" /\ Len(file_bytes) >= 893 =>
           \/ decode_error = "TypeError" /\ IntCast(WordAt(869)) \notin {0, 1}
           \/ /\ decoded_parameters.init_E = Round3(WordAt(845))
              /\ decoded_parameters.final_E = Round3(WordAt(849))
              /\ decoded_parameters.high_E = Round3(WordAt(853))
              /\ decoded_parameters.low_E = Round3(WordAt(857))
              /\ decoded_parameters.scan_rate = Round5(WordAt(861))
              /\ IntCast(WordAt(869)) = 1 => decoded_parameters.init_sweep_direction = 1
              /\ IntCast(WordAt(869)) = 0 => decoded_parameters.init_sweep_direction = -1
              /\ decoded_parameters.num_segments = IntCast(WordAt(873))
              /\ decoded_parameters.sample_interval = Round5(WordAt(877))
              /\ decoded_parameters.sensitivity = WordAt(885)
              /\ decoded_parameters.quiet_time = WordAt(889)
              /\ \A o \in {865, 881} :
                     DecodeHeader(Overwritten(o, <<1, 2, 3, 4>>)) = decoded_parameters
              /\ _get_parameters(StoredFile(file_bytes))
                     = [f \in {"init_E", "high_E", "low_E", "sample_interval",
                                "init_sweep_direction"} |-> decoded_parameters[f]]
    /\ decode_pc = "done" =>
           /\ 4 * Len(decoded_current) = Len(file_bytes) - 1445
           /\ \A i \in 1..Len(decoded_current) :
                  decoded_current[i] = WordAt(1445 + 4 * (i - 1))

\* a file of three records, not all equal, with a negative low_E word, has
\* been decoded
C21_Witness ==
    /\ decode_pc = "done"
    /\ Len(decoded_current) = 3
    /\ decoded_current[1] # decoded_current[2]
    /\ decoded_current[2] # decoded_current[3]
    /\ decoded_parameters.low_E < 0
    /\ decoded_parameters.init_E # decoded_parameters.high_E

-----------------------------------------------------------------------------
(* Properties of file_parse *)

\* the samples of the DataFrames of a list, in order
RECURSIVE LegacySamples(_, _)
LegacySamples(frames, k) ==
    IF k = 0 THEN <<>>
    ELSE LegacySamples(frames, k - 1)
             \o [j \in 1..Len(frames[k].pot) |->
                    [pot |-> frames[k].pot[j], cur |-> frames[k].cur[j]]]

\* C24: file_parse.parse_bin_file on a stream of n >= 1 samples returns
\* segments that, taken in order, hold all n samples once each, the last
\* sample of the file included, and none of the segments is empty.
C24_FileParseKeepsEverySample ==
    Parsed =>
        /\ LegacySamples(voltammogram, Len(voltammogram)) = InputSamples
        /\ \A k \in 1..Len(voltammogram) : Len(voltammogram[k].pot) >= 1

-----------------------------------------------------------------------------
(* Properties of the lists of Segments *)

\* the content of an attribute of the k-th instance
ListOf(h, inst, k, a) == h[inst[k][a]]

\* C25: a Segment made without explicit lists has empty peaks, ehalfs and
\* peak_separations, whatever was appended to other segments before; an
\* in-place append to a list of one segment leaves the lists of every other
\* segment as they were; and a construction leaves the lists of the earlier
\* segments as they were.
C25_SegmentsOwnTheirLists ==
    [][/\ call'.op = "Segment(index, data)" =>
            \A a \in ListAttributes : ListOf(heap', instances', call'.k, a) = <<>>
       /\ call'.op = "append" =>
            \A j \in 1..Len(instances) : \A a \in ListAttributes :
                j # call'.k =>
                    ListOf(heap', instances', j, a) = ListOf(heap, instances, j, a)
       /\ call'.op # "append" =>
            \A j \in 1..Len(instances) : \A a \in ListAttributes :
                ListOf(heap', instances', j, a) = ListOf(heap, instances, j, a)]_vars

-----------------------------------------------------------------------------
(* Properties of the checks of the trim option *)

\* a pair (first, total) selects only existing segments of n
SelectsExisting(n, first, total) ==
    /\ 1 <= first
    /\ first <= n
    /\ total >= 1
    /\ first + total - 1 <= n

\* the 0-based indexes range(first - 1, first + total - 1) the plot and the
\* export read
IndexesRead(first, total) == (first - 1)..(first + total - 2)

\* C28: for N >= 1 segments and any integers, check_start_and_segments returns
\* a pair (s, c) with 1 <= s <= N, c >= 1 and s + c - 1 <= N, so the plot
\* reads only the indexes 0..N-1, and a request within these bounds is
\* returned unchanged.
C28_CheckedPairSelectsExisting ==
    (check_pc = "done" /\ checked.by = "check_start_and_segments") =>
        LET n == check_request.segments
            first == checked.result[1]
            total == checked.result[2]
        IN  /\ SelectsExisting(n, first, total)
            /\ IndexesRead(first, total) \subseteq 0..(n - 1)
            /\ SelectsExisting(n, check_request.first, check_request.total) =>
                   checked.result = <<check_request.first, check_request.total>>

\* a first segment of -2 and a total of -1 on three segments become (1, 3)
C28_Witness ==
    /\ check_pc = "done"
    /\ checked.by = "check_start_and_segments"
    /\ check_request = [segments |-> 3, first |-> -2, total |-> -1]
    /\ checked.result = <<1, 3>>

\* C29: for N >= 1 segments and any integer pair, _check_trim_values returns a
\* pair that selects only existing segments, so the export and the plot read
\* only the indexes 0..N-1; a request within the bounds is unchanged, and a
\* total of 0 selects every segment from the first one chosen to the last.
C29_TrimValuesSelectExisting ==
    (check_pc = "done" /\ checked.by = "_check_trim_values") =>
        LET n == check_request.segments
            first == checked.result[1]
            total == checked.result[2]
        IN  /\ SelectsExisting(n, first, total)
            /\ IndexesRead(first, total) \subseteq 0..(n - 1)
            /\ SelectsExisting(n, check_request.first, check_request.total) =>
                   checked.result = <<check_request.first, check_request.total>>
            /\ check_request.total = 0 => first + total - 1 = n

=============================================================================
